---- MODULE Spec2Model ----
(***************************************************************************)
(* Kenya Overwatch: the detection-to-evidence core.                        *)
(*   EvidenceManager, MilestoneManager, RiskScoringEngine                  *)
(*     (backend/production_system.py)                                      *)
(*   VehicleTracker (backend/anpr/__init__.py)                             *)
(*                                                                         *)
(* Each component has its own specification (SpecEvidence, SpecMilestone,  *)
(* SpecMilestoneConc, SpecTracker, SpecRisk) over one shared variable      *)
(* tuple; a component's specification leaves the other components in      *)
(* their constructed state.                                                *)
(*                                                                         *)
(* Conventions:                                                            *)
(*   - Python None is the string None for string-typed fields, NoTime for  *)
(*     datetime-typed fields and NoIso for isoformat texts; a dictionary   *)
(*     key that is absent holds the same value.                            *)
(*   - utcnow() reads the variable now; between two reads the clock may    *)
(*     stand still or advance by one tick (ClockReads).                    *)
(*   - SHA-256 is taken to be collision free: a digest is represented by   *)
(*     the tagged serialization it was computed from, the empty string by  *)
(*     the empty tuple.                                                    *)
(***************************************************************************)
EXTENDS Integers, Sequences, FiniteSets, TLC

VARIABLES
    now,                \* the wall clock read by utcnow(), in ticks
    evidence_packages,  \* EvidenceManager.evidence_packages : id -> package
    ev_audit_log,       \* EvidenceManager.audit_log
    ev_result,          \* the last EvidenceManager call and what it returned
    milestones,         \* MilestoneManager.milestones : id -> milestone
    ms_audit_log,       \* MilestoneManager.audit_log
    ms_created,         \* how many milestone ids uuid4() has handed out
    ms_result,          \* the last MilestoneManager call and what it returned
    th_pc,              \* per thread: where it is inside approve/reject
    th_arg,             \* per thread: the arguments of its call
    th_ret,             \* per thread: what its call returned
    tracks,             \* VehicleTracker.tracks, in dictionary (insertion) order
    next_id,            \* VehicleTracker.next_id
    max_age,            \* VehicleTracker.max_age
    min_hits,           \* VehicleTracker.min_hits
    active_tracks,      \* the list the last update call returned
    tracks_to_remove,   \* the tracks the last update call deleted
    matched_tracks,     \* the track ids the last update call matched
    frames,             \* how many update calls have been made
    level_last,         \* the last score classified, its level and recommended action
    last_detections,    \* the detections argument of the last update call
    update_error,       \* the exception the last update call raised, or "none"
    track_lock,         \* VehicleTracker.track_lock: TRUE while a thread holds it
    ut_pc,              \* per thread: where it is inside update
    ut_local,           \* per thread: the arguments and local variables of its update call
    hour,               \* utcnow().hour as the risk engine reads it
    risk_last,          \* the last assess_risk call: its input and its result
    pipeline_trackers,  \* AIDetectionPipeline.trackers : camera id -> tracker
    detection_history,  \* AIDetectionPipeline.detection_history : camera id -> events
    active_incidents,   \* KenyaOverwatchProduction.active_incidents : id -> incident
    alerts,             \* the alerts _send_real_time_alert has raised
    pcs_result,         \* the last process_camera_stream call and how it went
    incident_error,     \* the exception the last _create_new_incident call raised, or "none"
    api_result,         \* the last milestone API request and its HTTP status
    request_counts,     \* RateLimiter.request_counts: identifier -> admitted request times
    rl_clock,           \* datetime.utcnow() of the API process, in seconds
    rl_admitted,        \* history: every request time the limiter admitted, per identifier
    rl_result           \* the last request through rate_limit_middleware and its answer

\* ------------------------------------------------------------------------
\* Bounds of the model
\* ------------------------------------------------------------------------
MaxTime == 1
MaxPackages == 1
MaxEvAudit == 3
MaxMilestones == 1
MaxMsAudit == 3
NumThreads == 2
ConfigMaxAge == 1
ConfigMinHits == 2
MaxFrames == 3
MaxDets == 2
MaxEvents == 5
MaxStreamCalls == 1
MaxAdmitted == 6         \* requests the rate limiter admits in one run
MaxClockTicks == 4       \* 100-second steps of the API process clock
ScoreGrid == 100         \* risk scores tried: this many equal steps across [0,1]

\* ------------------------------------------------------------------------
\* Common values
\* ------------------------------------------------------------------------
None == "None"
NoTime == -1
NoIso == << >>

\* datetime.isoformat(): the text form of a clock value
isoformat(t) == <<"iso", t>>

\* the values n consecutive utcnow() calls can return, starting at clock c
ClockReads(c, n) ==
    { s \in [1..n -> c..MaxTime] :
        /\ s[1] - c <= 1
        /\ \A i \in 2..n : s[i] >= s[i-1] /\ s[i] - s[i-1] <= 1 }

\* ------------------------------------------------------------------------
\* EvidenceManager
\* ------------------------------------------------------------------------
RiskLevels == {"low", "medium", "high", "critical"}

\* a retention table whose appeals retention is the 72-hour one
retention_policies_short_appeals ==
    [ non_offence      |-> 72,
      offence_evidence |-> 365 * 24,
      appeals_data     |-> 72,
      audit_logs       |-> 1825 * 24 ]

\* timedelta values of _load_retention_policies, in hours
retention_policies ==
    [ non_offence      |-> 72,
      offence_evidence |-> 365 * 24,
      appeals_data     |-> 2555 * 24,
      audit_logs       |-> 1825 * 24 ]

\* inputs of create_evidence_package
IncidentIds == {"inc1"}
EventLists == { <<"ev1", "ev2">> }
RiskAssessments == { [risk_level |-> l] : l \in RiskLevels }
ReviewerIds == {"rev1", "rev2"}
Decisions == {"approve", "reject"}
NotesSet == {"ok"}
AppealReasons == {"mistaken"}
PackageIds == 1..MaxPackages

get_camera_calibrations ==
    [ lens_distortion |-> "calibrated",
      gps_accuracy    |-> "2m",
      timestamp_sync  |-> "NTP synced" ]

\* json.dumps(asdict(package), sort_keys=True, default=str): every field of
\* the dataclass, package_hash included, in key order
serialize(p) ==
    << <<"appeal_status", p.appeal_status>>,
       <<"created_at", p.created_at>>,
       <<"events", p.events>>,
       <<"id", p.id>>,
       <<"incident_id", p.incident_id>>,
       <<"metadata", p.metadata>>,
       <<"package_hash", p.package_hash>>,
       <<"retention_until", p.retention_until>>,
       <<"review_notes", p.review_notes>>,
       <<"reviewer_id", p.reviewer_id>>,
       <<"risk_assessment", p.risk_assessment>>,
       <<"status", p.status>> >>

sha256(data) == <<"sha256", data>>

hash_package(p) == sha256(serialize(p))

\* the value of field name in the serialization a digest was computed from
HashedField(h, name) ==
    LET ser == h[2]
    IN  ser[CHOOSE i \in 1..Len(ser) : ser[i][1] = name][2]

\* a retention date that ignores the risk level
calculate_retention_date_flat(risk_level, t) ==
    t + retention_policies.non_offence

calculate_retention_date(risk_level, t) ==
    IF risk_level \in {"high", "critical"}
    THEN t + retention_policies.offence_evidence
    ELSE t + retention_policies.non_offence

\* an audit log that keeps only its newest entry
ev_log_audit_event_truncating(log, t, event_type, data) ==
    << [ timestamp  |-> isoformat(t),
         event_type |-> event_type,
         data       |-> data,
         user_id    |-> "system",
         ip_address |-> "127.0.0.1" ] >>

ev_log_audit_event(log, t, event_type, data) ==
    Append(log, [ timestamp  |-> isoformat(t),
                  event_type |-> event_type,
                  data       |-> data,
                  user_id    |-> "system",
                  ip_address |-> "127.0.0.1" ])

\* uuid4(): an identifier no stored package has
FreshPackageIds == PackageIds \ DOMAIN evidence_packages

create_evidence_package(incident_id, events, risk_assessment) ==
    /\ Len(ev_audit_log) < MaxEvAudit
    /\ \E package_id \in FreshPackageIds : \E r \in ClockReads(now, 3) :
        LET package0 ==
                [ id              |-> package_id,
                  incident_id     |-> incident_id,
                  created_at      |-> r[1],
                  events          |-> events,
                  risk_assessment |-> risk_assessment,
                  metadata        |->
                      [ created_by          |-> "AI_System",
                        camera_calibrations |-> get_camera_calibrations,
                        system_version      |-> "2.0.0",
                        chain_of_custody    |-> <<>>,
                        appeal_reason       |-> None,
                        appeal_date         |-> NoIso ],
                  status          |-> "created",
                  reviewer_id     |-> None,
                  review_notes    |-> None,
                  appeal_status   |-> None,
                  retention_until |->
                      calculate_retention_date(risk_assessment.risk_level, r[2]),
                  package_hash    |-> <<>> ]
            package == [package0 EXCEPT !.package_hash = hash_package(package0)]
        IN  /\ evidence_packages' =
                [ i \in DOMAIN evidence_packages \cup {package_id} |->
                    IF i = package_id THEN package ELSE evidence_packages[i] ]
            /\ ev_audit_log' =
                ev_log_audit_event(ev_audit_log, r[3], "evidence_created",
                    [ package_id  |-> package_id,
                      incident_id |-> incident_id,
                      hash        |-> package.package_hash ])
            /\ ev_result' = [op |-> "create", package_id |-> package_id, ok |-> TRUE]
            /\ now' = r[3]

\* a review that approves whatever the decision
review_status_always_approved(decision) == "approved"

\* 'APPROVED if decision == 'approve' else REJECTED'
review_status(decision) ==
    IF decision = "approve" THEN "approved" ELSE "rejected"

\* an unknown-package return that leaves a trace in the audit log
unknown_package_logged(op, package_id) ==
    /\ ev_result' = [op |-> op, package_id |-> package_id, ok |-> FALSE]
    /\ ev_audit_log' =
        ev_log_audit_event(ev_audit_log, now, "unknown_package", [package_id |-> package_id])
    /\ UNCHANGED <<now, evidence_packages>>

\* 'if package_id not in self.evidence_packages: return False'
unknown_package(op, package_id) ==
    /\ ev_result' = [op |-> op, package_id |-> package_id, ok |-> FALSE]
    /\ UNCHANGED <<now, evidence_packages, ev_audit_log>>

review_evidence(package_id, reviewer_id, decision, notes) ==
    IF package_id \notin DOMAIN evidence_packages
    THEN unknown_package("review", package_id)
    ELSE /\ Len(ev_audit_log) < MaxEvAudit
         /\ \E r \in ClockReads(now, 2) :
             LET package == evidence_packages[package_id]
                 package1 ==
                    [ package EXCEPT
                        !.status = review_status(decision),
                        !.reviewer_id = reviewer_id,
                        !.review_notes = notes,
                        !.metadata.chain_of_custody =
                            Append(@, [ action      |-> "review",
                                        reviewer_id |-> reviewer_id,
                                        decision    |-> decision,
                                        timestamp   |-> isoformat(r[1]) ]) ]
                 package2 == [package1 EXCEPT !.package_hash = hash_package(package1)]
             IN  /\ evidence_packages' = [evidence_packages EXCEPT ![package_id] = package2]
                 /\ ev_audit_log' =
                     ev_log_audit_event(ev_audit_log, r[2], "evidence_reviewed",
                         [ package_id  |-> package_id,
                           reviewer_id |-> reviewer_id,
                           decision    |-> decision,
                           notes       |-> notes ])
                 /\ ev_result' = [op |-> "review", package_id |-> package_id, ok |-> TRUE]
                 /\ now' = r[2]

submit_appeal(package_id, appeal_reason) ==
    IF package_id \notin DOMAIN evidence_packages
    THEN unknown_package("appeal", package_id)
    ELSE /\ Len(ev_audit_log) < MaxEvAudit
         /\ \E r \in ClockReads(now, 3) :
             LET package == evidence_packages[package_id]
                 package1 ==
                    [ package EXCEPT
                        !.status = "appealed",
                        !.appeal_status = "submitted",
                        !.metadata.appeal_reason = appeal_reason,
                        !.metadata.appeal_date = isoformat(r[1]),
                        !.retention_until = r[2] + retention_policies.appeals_data ]
             IN  /\ evidence_packages' = [evidence_packages EXCEPT ![package_id] = package1]
                 /\ ev_audit_log' =
                     ev_log_audit_event(ev_audit_log, r[3], "appeal_submitted",
                         [ package_id |-> package_id,
                           reason     |-> appeal_reason ])
                 /\ ev_result' = [op |-> "appeal", package_id |-> package_id, ok |-> TRUE]
                 /\ now' = r[3]

\* ------------------------------------------------------------------------
\* MilestoneManager
\* ------------------------------------------------------------------------
MilestoneStatuses ==
    {"draft", "in_progress", "pending_approval", "approved", "rejected", "cancelled"}
TerminalStatuses == {"approved", "rejected", "cancelled"}
MilestoneTypes == {"development", "incident_case", "evidence_review"}
SeverityLevels == {"low", "medium", "high", "critical"}

\* inputs of the milestone operations
Users == {"u1"}
Approvers == {"sup1", "adm1"}
\* the authenticated user each thread acts for
ThreadActors == <<"sup1", "adm1", "sup2", "adm2">>
Titles == {"t1"}
ApprovalNotes == {"fine"}
RejectionReasons == {"", "incomplete"}
MilestoneIds == 1..MaxMilestones

\* dict.get chain of MilestoneManager._log_audit_event
ms_audit_user(data) ==
    IF "created_by" \in DOMAIN data THEN data.created_by
    ELSE IF "submitted_by" \in DOMAIN data THEN data.submitted_by
    ELSE IF "approved_by" \in DOMAIN data THEN data.approved_by
    ELSE IF "rejected_by" \in DOMAIN data THEN data.rejected_by
    ELSE "system"

ms_log_audit_event(log, t, event_type, data) ==
    Append(log, [ timestamp  |-> isoformat(t),
                  event_type |-> event_type,
                  data       |-> data,
                  user_id    |-> ms_audit_user(data),
                  ip_address |-> "127.0.0.1" ])

MsReturn(op, milestone_id, ok) ==
    ms_result' = [op |-> op, milestone_id |-> milestone_id, ok |-> ok]

create_milestone(title, milestone_type, created_by, priority) ==
    /\ ms_created < MaxMilestones
    /\ Len(ms_audit_log) < MaxMsAudit
    /\ \E r \in ClockReads(now, 2) :
        LET milestone_id == ms_created + 1
            milestone ==
                [ id                        |-> milestone_id,
                  title                     |-> title,
                  description               |-> "",
                  type                      |-> milestone_type,
                  status                    |-> "draft",
                  priority                  |-> priority,
                  created_by                |-> created_by,
                  assigned_to               |-> None,
                  approved_by               |-> None,
                  created_at                |-> r[1],
                  updated_at                |-> NoTime,
                  due_date                  |-> NoTime,
                  completed_at              |-> NoTime,
                  submitted_for_approval_at |-> NoTime,
                  linked_incident_id        |-> None,
                  linked_evidence_id        |-> None,
                  approval_notes            |-> None,
                  rejection_reason          |-> None ]
        IN  /\ milestones' =
                [ i \in DOMAIN milestones \cup {milestone_id} |->
                    IF i = milestone_id THEN milestone ELSE milestones[i] ]
            /\ ms_audit_log' =
                ms_log_audit_event(ms_audit_log, r[2], "milestone_created",
                    [ milestone_id |-> milestone_id,
                      title        |-> title,
                      type         |-> milestone_type,
                      created_by   |-> created_by ])
            /\ ms_created' = milestone_id
            /\ MsReturn("create", milestone_id, TRUE)
            /\ now' = r[2]

\* updates is the **updates dictionary: field name -> new value
update_milestone(op, milestone_id, updated_by, updates) ==
    IF milestone_id \notin DOMAIN milestones
    THEN /\ MsReturn(op, milestone_id, FALSE)
         /\ UNCHANGED <<now, milestones, ms_audit_log, ms_created>>
    ELSE /\ Len(ms_audit_log) < MaxMsAudit
         /\ \E r \in ClockReads(now, 2) :
             LET milestone == milestones[milestone_id]
                 \* setattr for every key that names an attribute
                 edited == [ f \in DOMAIN milestone |->
                               IF f \in DOMAIN updates THEN updates[f] ELSE milestone[f] ]
                 milestone1 == [edited EXCEPT !.updated_at = r[1]]
             IN  /\ milestones' = [milestones EXCEPT ![milestone_id] = milestone1]
                 /\ ms_audit_log' =
                     ms_log_audit_event(ms_audit_log, r[2], "milestone_updated",
                         [ milestone_id |-> milestone_id,
                           updated_by   |-> updated_by,
                           fields       |-> DOMAIN updates ])
                 /\ MsReturn(op, milestone_id, TRUE)
                 /\ now' = r[2]
                 /\ UNCHANGED ms_created

\* submittable without its status check
submittable_any_status(milestone_id) ==
    milestone_id \in DOMAIN milestones

\* the precondition checks of submit_for_approval
submittable(milestone_id) ==
    /\ milestone_id \in DOMAIN milestones
    /\ milestones[milestone_id].status \in {"draft", "in_progress"}

submit_for_approval(milestone_id, submitted_by) ==
    IF ~submittable(milestone_id)
    THEN /\ MsReturn("submit", milestone_id, FALSE)
         /\ UNCHANGED <<now, milestones, ms_audit_log, ms_created>>
    ELSE /\ Len(ms_audit_log) < MaxMsAudit
         /\ \E r \in ClockReads(now, 3) :
             /\ milestones' = [milestones EXCEPT ![milestone_id] =
                    [ @ EXCEPT !.status = "pending_approval",
                               !.submitted_for_approval_at = r[1],
                               !.updated_at = r[2] ]]
             /\ ms_audit_log' =
                 ms_log_audit_event(ms_audit_log, r[3], "milestone_submitted",
                     [ milestone_id |-> milestone_id,
                       submitted_by |-> submitted_by ])
             /\ MsReturn("submit", milestone_id, TRUE)
             /\ now' = r[3]
             /\ UNCHANGED ms_created

\* approvable without its status check
approvable_any_status(milestone_id) ==
    milestone_id \in DOMAIN milestones

\* the precondition checks of approve_milestone and reject_milestone
approvable(milestone_id) ==
    /\ milestone_id \in DOMAIN milestones
    /\ milestones[milestone_id].status = "pending_approval"

rejectable(milestone_id) ==
    /\ milestone_id \in DOMAIN milestones
    /\ milestones[milestone_id].status = "pending_approval"

\* the writes of approve_milestone after its checks have passed
approve_write(milestone_id, approved_by, notes) ==
    \E r \in ClockReads(now, 3) :
        /\ milestones' = [milestones EXCEPT ![milestone_id] =
               [ @ EXCEPT !.status = "approved",
                          !.approved_by = approved_by,
                          !.approval_notes = notes,
                          !.completed_at = r[1],
                          !.updated_at = r[2] ]]
        /\ ms_audit_log' =
            ms_log_audit_event(ms_audit_log, r[3], "milestone_approved",
                [ milestone_id |-> milestone_id,
                  approved_by  |-> approved_by,
                  notes        |-> notes ])
        /\ now' = r[3]

\* the writes of reject_milestone after its checks have passed
reject_write(milestone_id, rejected_by, reason) ==
    \E r \in ClockReads(now, 2) :
        /\ milestones' = [milestones EXCEPT ![milestone_id] =
               [ @ EXCEPT !.status = "rejected",
                          !.approved_by = rejected_by,
                          !.rejection_reason = reason,
                          !.updated_at = r[1] ]]
        /\ ms_audit_log' =
            ms_log_audit_event(ms_audit_log, r[2], "milestone_rejected",
                [ milestone_id |-> milestone_id,
                  rejected_by  |-> rejected_by,
                  reason       |-> reason ])
        /\ now' = r[2]

approve_milestone(milestone_id, approved_by, notes) ==
    IF ~approvable(milestone_id)
    THEN /\ MsReturn("approve", milestone_id, FALSE)
         /\ UNCHANGED <<now, milestones, ms_audit_log, ms_created>>
    ELSE /\ Len(ms_audit_log) < MaxMsAudit
         /\ approve_write(milestone_id, approved_by, notes)
         /\ MsReturn("approve", milestone_id, TRUE)
         /\ UNCHANGED ms_created

reject_milestone(milestone_id, rejected_by, reason) ==
    IF ~rejectable(milestone_id)
    THEN /\ MsReturn("reject", milestone_id, FALSE)
         /\ UNCHANGED <<now, milestones, ms_audit_log, ms_created>>
    ELSE /\ Len(ms_audit_log) < MaxMsAudit
         /\ reject_write(milestone_id, rejected_by, reason)
         /\ MsReturn("reject", milestone_id, TRUE)
         /\ UNCHANGED ms_created

\* ---- the milestone endpoints of production_api.py ----
Roles == {"operator", "supervisor", "admin"}

\* a role gate that lets every role through
GatedRolesAll == {"operator", "supervisor", "admin"}

\* 'user_role not in ["supervisor", "admin"]' raises 403
GatedRoles == {"supervisor", "admin"}

ApiReturn(endpoint, milestone_id, user_role, status_code) ==
    api_result' = [endpoint |-> endpoint, milestone_id |-> milestone_id,
                   user_role |-> user_role, status_code |-> status_code]

\* POST /api/milestones/{milestone_id}/approve
api_approve_milestone(milestone_id, approved_by, notes, user_role) ==
    IF user_role \notin GatedRoles
    THEN /\ ApiReturn("approve", milestone_id, user_role, 403)
         /\ UNCHANGED <<now, milestones, ms_audit_log, ms_created, ms_result>>
    ELSE IF milestone_id \notin DOMAIN milestones
    THEN /\ ApiReturn("approve", milestone_id, user_role, 404)
         /\ UNCHANGED <<now, milestones, ms_audit_log, ms_created, ms_result>>
    ELSE /\ approve_milestone(milestone_id, approved_by, notes)
         /\ ApiReturn("approve", milestone_id, user_role,
                      IF ms_result'.ok THEN 200 ELSE 400)

\* POST /api/milestones/{milestone_id}/reject
api_reject_milestone(milestone_id, rejected_by, reason, user_role) ==
    IF user_role \notin GatedRoles
    THEN /\ ApiReturn("reject", milestone_id, user_role, 403)
         /\ UNCHANGED <<now, milestones, ms_audit_log, ms_created, ms_result>>
    ELSE IF reason = ""
    THEN /\ ApiReturn("reject", milestone_id, user_role, 400)
         /\ UNCHANGED <<now, milestones, ms_audit_log, ms_created, ms_result>>
    ELSE IF milestone_id \notin DOMAIN milestones
    THEN /\ ApiReturn("reject", milestone_id, user_role, 404)
         /\ UNCHANGED <<now, milestones, ms_audit_log, ms_created, ms_result>>
    ELSE /\ reject_milestone(milestone_id, rejected_by, reason)
         /\ ApiReturn("reject", milestone_id, user_role,
                      IF ms_result'.ok THEN 200 ELSE 400)

\* deletable without its status check
deletable_any_status(milestone_id) ==
    milestone_id \in DOMAIN milestones

\* the precondition checks of delete_milestone
deletable(milestone_id) ==
    /\ milestone_id \in DOMAIN milestones
    /\ milestones[milestone_id].status = "draft"

delete_milestone(milestone_id) ==
    IF ~deletable(milestone_id)
    THEN /\ MsReturn("delete", milestone_id, FALSE)
         /\ UNCHANGED <<now, milestones, ms_audit_log, ms_created>>
    ELSE /\ Len(ms_audit_log) < MaxMsAudit
         /\ \E r \in ClockReads(now, 1) :
             /\ milestones' =
                 [ i \in DOMAIN milestones \ {milestone_id} |-> milestones[i] ]
             /\ ms_audit_log' =
                 ms_log_audit_event(ms_audit_log, r[1], "milestone_deleted",
                     [ milestone_id |-> milestone_id ])
             /\ now' = r[1]
         /\ MsReturn("delete", milestone_id, TRUE)
         /\ UNCHANGED ms_created

\* ------------------------------------------------------------------------
\* VehicleTracker
\* ------------------------------------------------------------------------
\* Confidences are in hundredths.  Centroids are kept doubled, <<x1+x2,
\* y1+y2>>, and distances squared, so that all arithmetic stays in the
\* integers: sqrt(dx^2 + dy^2) < 150 iff (2dx)^2 + (2dy)^2 < 4 * 150^2.
MaxDistance == 150
HistoryMaxLen == 30
VerifyThreshold == 85
NoId == 0

Cameras == {"cam_A", "cam_B"}

\* the detections a frame can hold: bbox <<x1, y1, x2, y2>>, OCR text and
\* confidence ("" when the detection carries no plate)
Detections ==
    { [bbox |-> <<0, 0, 20, 20>>,    plate |-> "KAA1", plate_confidence |-> 90],
      [bbox |-> <<100, 0, 120, 20>>, plate |-> "KBB2", plate_confidence |-> 85],
      [bbox |-> <<150, 0, 170, 20>>, plate |-> "",     plate_confidence |-> 0],
      [bbox |-> <<0, 0, 20, 20>>,    plate |-> "",     plate_confidence |-> 0] }

\* a frame lists at most MaxDets detections, no two with the same box
Frames ==
    { f \in UNION { [1..n -> Detections] : n \in 0..MaxDets } :
        \A i, j \in 1..Len(f) : i # j => f[i].bbox # f[j].bbox }

\* a frame whose only detection lacks its bounding box
MalformedFrames == { << [plate |-> "KAA1", plate_confidence |-> 90] >> }

\* two detections at the same distance (100) from the first box of Detections,
\* listed in either order
TieFrames ==
    LET right == [bbox |-> <<100, 0, 120, 20>>, plate |-> "", plate_confidence |-> 0]
        below == [bbox |-> <<0, 100, 20, 120>>, plate |-> "", plate_confidence |-> 0]
    IN  { <<right, below>>, <<below, right>> }

\* the frames a camera delivers: cam_B watches a single lane and reports at
\* most one vehicle per frame
CameraFrames(camera_id) ==
    IF camera_id = "cam_A" THEN Frames \cup TieFrames
    ELSE { f \in Frames : Len(f) <= 1 }

centroid2(bbox) == <<bbox[1] + bbox[3], bbox[2] + bbox[4]>>

distance2x4(c, d) == (c[1] - d[1]) * (c[1] - d[1]) + (c[2] - d[2]) * (c[2] - d[2])

\* a threshold that also accepts a detection exactly 150 units away
within_max_distance_inclusive(d2x4) == d2x4 <= 4 * MaxDistance * MaxDistance

within_max_distance(d2x4) == d2x4 < 4 * MaxDistance * MaxDistance

\* deque(maxlen=30).append
deque_append(h, c) ==
    IF Len(h) >= HistoryMaxLen THEN Append(Tail(h), c) ELSE Append(h, c)

\* the inner loop of the matching pass, from detection k on: the index of the
\* nearest detection not yet taken and closer than the threshold (0: none)
RECURSIVE best_match(_, _, _, _, _, _)
best_match(track, dets, taken, k, best_idx, best_d) ==
    IF k > Len(dets) THEN best_idx
    ELSE IF k \in taken \/ Len(track.centroid_history) = 0
         THEN best_match(track, dets, taken, k + 1, best_idx, best_d)
         ELSE LET last == track.centroid_history[Len(track.centroid_history)]
                  d == distance2x4(centroid2(dets[k].bbox), last)
              IN  IF (best_idx = 0 \/ d < best_d) /\ within_max_distance(d)
                  THEN best_match(track, dets, taken, k + 1, k, d)
                  ELSE best_match(track, dets, taken, k + 1, best_idx, best_d)

\* a matched-track update in which verified follows the latest plate reading
match_update_verified_follows(track, det, current_time) ==
    LET t1 == [ track EXCEPT
                  !.bbox = det.bbox,
                  !.centroid_history = deque_append(@, centroid2(det.bbox)),
                  !.last_seen = current_time,
                  !.hits = @ + 1,
                  !.age = 0 ]
    IN  IF det.plate # ""
        THEN [ t1 EXCEPT
                 !.plate = det.plate,
                 !.plate_confidence = det.plate_confidence,
                 !.verified = det.plate_confidence > VerifyThreshold ]
        ELSE t1

\* the update of a matched track
match_update(track, det, current_time) ==
    LET t1 == [ track EXCEPT
                  !.bbox = det.bbox,
                  !.centroid_history = deque_append(@, centroid2(det.bbox)),
                  !.last_seen = current_time,
                  !.hits = @ + 1,
                  !.age = 0 ]
    IN  IF det.plate # ""
        THEN [ t1 EXCEPT
                 !.plate = det.plate,
                 !.plate_confidence = det.plate_confidence,
                 !.verified = IF det.plate_confidence > VerifyThreshold THEN TRUE ELSE @ ]
        ELSE t1

\* the matching pass over the tracks, from track i on;
\* st = [tracks, taken (matched_detections), matched (matched_tracks)]
RECURSIVE match_pass(_, _, _, _)
match_pass(st, dets, i, current_time) ==
    IF i > Len(st.tracks) THEN st
    ELSE IF st.tracks[i].id = NoId
         THEN match_pass(st, dets, i + 1, current_time)
         ELSE LET b == best_match(st.tracks[i], dets, st.taken, 1, 0, 0)
              IN  IF b > 0
                  THEN match_pass(
                         [ tracks  |-> [st.tracks EXCEPT ![i] =
                                          match_update(@, dets[b], current_time)],
                           taken   |-> st.taken \cup {b},
                           matched |-> st.matched \cup {st.tracks[i].id} ],
                         dets, i + 1, current_time)
                  ELSE match_pass(st, dets, i + 1, current_time)

\* "find first available track ID": the key of the first entry whose id is None
first_free_slot(trs) ==
    LET free == { i \in 1..Len(trs) : trs[i].id = NoId }
    IN  IF free = {} THEN NoId
        ELSE trs[CHOOSE i \in free : \A j \in free : i <= j].key

\* a new track that does not count its creating detection as a hit
new_track_zero_hits(new_id, det, camera_id, current_time) ==
    [ key              |-> new_id,
      id               |-> new_id,
      plate            |-> det.plate,
      plate_confidence |-> det.plate_confidence,
      last_seen        |-> current_time,
      hits             |-> 0,
      age              |-> 0,
      bbox             |-> det.bbox,
      centroid_history |-> <<centroid2(det.bbox)>>,
      camera_id        |-> camera_id,
      verified         |-> FALSE ]

new_track(new_id, det, camera_id, current_time) ==
    [ key              |-> new_id,
      id               |-> new_id,
      plate            |-> det.plate,
      plate_confidence |-> det.plate_confidence,
      last_seen        |-> current_time,
      hits             |-> 1,
      age              |-> 0,
      bbox             |-> det.bbox,
      centroid_history |-> <<centroid2(det.bbox)>>,
      camera_id        |-> camera_id,
      verified         |-> FALSE ]

\* self.tracks[key] = value: replace in place or insert at the end
dict_set(trs, value) ==
    IF \E i \in 1..Len(trs) : trs[i].key = value.key
    THEN [ i \in 1..Len(trs) |-> IF trs[i].key = value.key THEN value ELSE trs[i] ]
    ELSE Append(trs, value)

\* the pass creating tracks for the detections left unmatched, from k on;
\* st = [tracks, next_id]
RECURSIVE create_pass(_, _, _, _, _, _)
create_pass(st, dets, taken, k, camera_id, current_time) ==
    IF k > Len(dets) THEN st
    ELSE IF k \in taken
         THEN create_pass(st, dets, taken, k + 1, camera_id, current_time)
         ELSE LET slot == first_free_slot(st.tracks)
                  new_id == IF slot = NoId THEN st.next_id ELSE slot
                  nxt == IF slot = NoId THEN st.next_id + 1 ELSE st.next_id
              IN  create_pass(
                    [ tracks  |-> dict_set(st.tracks,
                                    new_track(new_id, dets[k], camera_id, current_time)),
                      next_id |-> nxt ],
                    dets, taken, k + 1, camera_id, current_time)

\* the aging loop: every entry with an id grows one frame older
age_pass(trs) ==
    [ i \in 1..Len(trs) |->
        IF trs[i].id # NoId THEN [trs[i] EXCEPT !.age = @ + 1] ELSE trs[i] ]

\* expired with the comparison off by one
expired_at_max_age(track, maxage) == track.id # NoId /\ track.age >= maxage

expired(track, maxage) == track.id # NoId /\ track.age > maxage

\* confirmed without the minimum-hits filter
confirmed_any_hits(track, minhits) == track.hits >= 0

confirmed(track, minhits) == track.hits >= minhits

active_view(track) ==
    [ track_id         |-> track.id,
      plate            |-> track.plate,
      plate_confidence |-> track.plate_confidence,
      bbox             |-> track.bbox,
      verified         |-> track.verified,
      camera_id        |-> track.camera_id,
      last_seen        |-> isoformat(track.last_seen),
      hits             |-> track.hits ]

\* det['bbox'] is read for every detection before any track is touched; a
\* detection without that key raises KeyError out of update
has_bbox(det) == "bbox" \in DOMAIN det

update(detections, camera_id) ==
  IF \E i \in 1..Len(detections) : ~has_bbox(detections[i])
  THEN
    /\ update_error' = "KeyError"
    /\ last_detections' = detections
    /\ UNCHANGED <<tracks, next_id, max_age, min_hits, active_tracks,
                   tracks_to_remove, matched_tracks, frames>>
    /\ UNCHANGED <<track_lock, ut_pc, ut_local>>
  ELSE
    /\ frames < MaxFrames
    /\ update_error' = "none"
    /\ last_detections' = detections
    /\ LET current_time == now
           m == match_pass([tracks |-> tracks, taken |-> {}, matched |-> {}],
                           detections, 1, current_time)
           c == create_pass([tracks |-> m.tracks, next_id |-> next_id],
                            detections, m.taken, 1, camera_id, current_time)
           aged == age_pass(c.tracks)
           kept == SelectSeq(aged, LAMBDA t : ~expired(t, max_age))
       IN  /\ tracks' = kept
           /\ next_id' = c.next_id
           /\ tracks_to_remove' = SelectSeq(aged, LAMBDA t : expired(t, max_age))
           /\ matched_tracks' = m.matched
           /\ active_tracks' =
                LET sel == SelectSeq(kept, LAMBDA t : confirmed(t, min_hits))
                IN  [ i \in 1..Len(sel) |-> active_view(sel[i]) ]
           /\ frames' = frames + 1
    /\ UNCHANGED <<max_age, min_hits>>
    /\ UNCHANGED <<track_lock, ut_pc, ut_local>>

\* ------------------------------------------------------------------------
\* RateLimiter (app/services/auth.py) and rate_limit_middleware
\* ------------------------------------------------------------------------
ClientIps == {"10.0.0.1", "10.0.0.2"}
RequestPaths == {"/api/auth/login", "/api/incidents"}

\* endpoint.startswith("/api/auth/")
is_auth_path(path) == path = "/api/auth/login"

\* f"{client_ip}:auth"
auth_identifier(client_ip) == <<client_ip, "auth">>

\* a window that never lets a request time go
in_window_forever(req_time, window_start) == TRUE

\* 'req_time > window_start'
in_window(req_time, window_start) == req_time > window_start

\* is_allowed(identifier, limit, window_seconds) at clock reading current_time:
\* the request_counts it leaves and the value it returns
is_allowed(counts, identifier, limit, window_seconds, current_time) ==
    LET window_start == current_time - window_seconds
        known == IF identifier \in DOMAIN counts THEN counts[identifier] ELSE << >>
        recent == SelectSeq(known, LAMBDA req_time : in_window(req_time, window_start))
        allowed == Len(recent) < limit
        kept == IF allowed THEN Append(recent, current_time) ELSE recent
    IN  [ request_counts |->
              [ i \in DOMAIN counts \cup {identifier} |->
                  IF i = identifier THEN kept ELSE counts[i] ],
          allowed |-> allowed ]

\* one request from client_ip to path passing through the middleware
rate_limit_middleware(client_ip, path) ==
    IF is_auth_path(path)
    THEN LET r == is_allowed(request_counts, auth_identifier(client_ip), 5, 300, rl_clock)
         IN  /\ request_counts' = r.request_counts
             /\ rl_admitted' =
                   IF r.allowed
                   THEN [rl_admitted EXCEPT ![client_ip] = Append(@, rl_clock)]
                   ELSE rl_admitted
             /\ rl_result' = [ client_ip |-> client_ip, path |-> path,
                               status_code |-> IF r.allowed THEN 200 ELSE 429,
                               reached_endpoint |-> r.allowed ]
    ELSE /\ rl_result' = [ client_ip |-> client_ip, path |-> path,
                           status_code |-> 200, reached_endpoint |-> TRUE ]
         /\ UNCHANGED <<request_counts, rl_admitted>>

\* ------------------------------------------------------------------------
\* RiskScoringEngine
\* ------------------------------------------------------------------------
\* Risk factors are in thousandths, the combined score in ten-thousandths
\* (weights in tenths); an event is represented by its timestamp in seconds.
\* weights ten times as heavy
risk_weights_tenfold ==
    [behavioral |-> 40, spatial |-> 30, temporal |-> 20, contextual |-> 10]

risk_weights == [behavioral |-> 4, spatial |-> 3, temporal |-> 2, contextual |-> 1]

\* risk_multiplier in tenths, in list order
high_risk_zones ==
    << [name |-> "airport", risk_multiplier |-> 15],
       [name |-> "government", risk_multiplier |-> 13],
       [name |-> "school", risk_multiplier |-> 12] >>

Min(a, b) == IF a < b THEN a ELSE b

\* event batches: n events, the first at 0 and the last at span seconds
EventBatch(n, span) == [ i \in 1..n |-> IF i = n /\ n > 1 THEN span ELSE 0 ]
EventBatches ==
    { EventBatch(n, sp) : n \in {0, MaxEvents}, sp \in {300, 301} }
        \cup { EventBatch(MaxEvents - 1, 301) }

\* a location string, with the zone names that occur in its lower-case form
Locations ==
    { [text |-> "Nairobi CBD", mentions |-> {}],
      [text |-> "JKIA Airport", mentions |-> {"airport"}],
      [text |-> "Government School", mentions |-> {"government", "school"}] }

Contexts ==
    [ location : Locations,
      crowd_density : {"low", "medium", "high"},
      weather : {"clear", "storm", "fog"},
      traffic : {"normal", "congested"} ]

\* a motion detector reporting strong changes
detect_motion_changes_busy(events) == 800

detect_motion_changes(events) == 300

detect_loitering(events) ==
    IF Len(events) < 5 THEN 0
    ELSE IF events[Len(events)] - events[1] > 300 THEN 800 ELSE 200

detect_directional_conflicts(events) == 400

calculate_behavioral_risk(events) ==
    IF Len(events) = 0 THEN 0
    ELSE LET r1 == IF detect_motion_changes(events) > 700 THEN 300 ELSE 0
             r2 == r1 + (IF detect_loitering(events) > 600 THEN 200 ELSE 0)
             r3 == r2 + (IF detect_directional_conflicts(events) > 500 THEN 250 ELSE 0)
         IN  Min(r3, 1000)

\* the first zone of the list whose name occurs in the location (0: none)
first_zone(location) ==
    LET hits == { i \in 1..Len(high_risk_zones) :
                    high_risk_zones[i].name \in location.mentions }
    IN  IF hits = {} THEN 0 ELSE CHOOSE i \in hits : \A j \in hits : i <= j

\* a high crowd density taking off twice as much
calculate_spatial_risk_deep_discount(context) ==
    LET z == first_zone(context.location)
        base0 == IF z = 0 THEN 100 ELSE (100 * high_risk_zones[z].risk_multiplier) \div 10
    IN  IF context.crowd_density = "high" THEN base0 - 200 ELSE base0

calculate_spatial_risk(context) ==
    LET z == first_zone(context.location)
        base0 == IF z = 0 THEN 100 ELSE (100 * high_risk_zones[z].risk_multiplier) \div 10
        base1 == IF context.crowd_density = "low" THEN base0 + 100
                 ELSE IF context.crowd_density = "high" THEN base0 - 100
                 ELSE base0
    IN  Min(base1, 1000)

calculate_temporal_risk(events, context, current_hour) ==
    IF 22 <= current_hour \/ current_hour <= 5 THEN 300
    ELSE IF 6 <= current_hour /\ current_hour <= 8 THEN 200
    ELSE 100

calculate_contextual_risk(events, context) ==
    LET w == IF context.weather = "storm" THEN 100
             ELSE IF context.weather = "fog" THEN 50 ELSE 0
        t == IF context.traffic = "congested" THEN 50 ELSE 0
    IN  Min(w + t, 1000)

\* the thresholds with the boundary scores on the lower side
determine_risk_level_inclusive(risk_score) ==
    IF risk_score <= 3000 THEN "low"
    ELSE IF risk_score <= 6000 THEN "medium"
    ELSE IF risk_score <= 8000 THEN "high"
    ELSE "critical"

determine_risk_level(risk_score) ==
    IF risk_score < 3000 THEN "low"
    ELSE IF risk_score < 6000 THEN "medium"
    ELSE IF risk_score < 8000 THEN "high"
    ELSE "critical"

generate_reason_codes(b, s, t, c) ==
    SelectSeq(
        << <<b, "BEHAVIORAL_ANOMALY">>, <<s, "HIGH_RISK_LOCATION">>,
           <<t, "HIGH_RISK_TIME">>, <<c, "ADVERSE_CONDITIONS">> >>,
        LAMBDA x : x[1] > 500)

recommend_action(risk_level) ==
    CASE risk_level = "low" -> "Log only"
      [] risk_level = "medium" -> "Operator notification"
      [] risk_level = "high" -> "Supervisor review"
      [] risk_level = "critical" -> "Immediate human response"

\* assess_risk when utcnow() reads clock hour h (the timestamp field of the
\* RiskAssessment is left out)
assess_risk(events, context, h) ==
    LET behavioral_risk == calculate_behavioral_risk(events)
        spatial_risk == calculate_spatial_risk(context)
        temporal_risk == calculate_temporal_risk(events, context, h)
        contextual_risk == calculate_contextual_risk(events, context)
        risk_score == risk_weights.behavioral * behavioral_risk
                      + risk_weights.spatial * spatial_risk
                      + risk_weights.temporal * temporal_risk
                      + risk_weights.contextual * contextual_risk
        risk_level == determine_risk_level(risk_score)
        codes == generate_reason_codes(behavioral_risk, spatial_risk,
                                       temporal_risk, contextual_risk)
    IN  [ risk_score         |-> risk_score,
          risk_level         |-> risk_level,
          factors            |-> [ temporal_risk   |-> temporal_risk,
                                   spatial_risk    |-> spatial_risk,
                                   behavioral_risk |-> behavioral_risk,
                                   contextual_risk |-> contextual_risk,
                                   reason_codes    |-> [ i \in 1..Len(codes) |-> codes[i][2] ] ],
          recommended_action |-> recommend_action(risk_level),
          confidence         |-> 850 ]

\* ------------------------------------------------------------------------
\* AIDetectionPipeline and KenyaOverwatchProduction
\* ------------------------------------------------------------------------
StreamFrames == {"frame1"}

\* _detect_objects: the two detections it returns for every frame
detect_objects(frame) ==
    << [type |-> "person",  confidence |-> 85, model_version |-> "1.2.0"],
       [type |-> "vehicle", confidence |-> 92, model_version |-> "1.2.0"] >>

\* _track_objects: every detection gets the camera tracker's next id
tracker_of(camera_id) ==
    IF camera_id \in DOMAIN pipeline_trackers
    THEN pipeline_trackers[camera_id]
    ELSE [next_id |-> 1, active_tracks |-> << >>]

track_objects(camera_id, detections) ==
    [ i \in 1..Len(detections) |->
        [ type          |-> detections[i].type,
          confidence    |-> detections[i].confidence,
          model_version |-> detections[i].model_version,
          track_id      |-> tracker_of(camera_id).next_id + i - 1,
          camera_id     |-> camera_id ] ]

\* the DetectionEvent list of AIDetectionPipeline.process_frame
pipeline_events(camera_id, frame, timestamp) ==
    LET objs == track_objects(camera_id, detect_objects(frame))
    IN  [ i \in 1..Len(objs) |->
            [ camera_id      |-> camera_id,
              timestamp      |-> timestamp,
              detection_type |-> objs[i].type,
              confidence     |-> objs[i].confidence,
              frame_hash     |-> sha256(frame),
              model_version  |-> objs[i].model_version ] ]

\* _store_detection_history: extend, then keep the last 24 hours
store_detection_history(camera_id, events, t) ==
    LET old == IF camera_id \in DOMAIN detection_history
               THEN detection_history[camera_id] ELSE << >>
        kept == SelectSeq(old \o events, LAMBDA e : e.timestamp > t - 24)
    IN  [ c \in DOMAIN detection_history \cup {camera_id} |->
            IF c = camera_id THEN kept ELSE detection_history[c] ]

\* _get_context_data
get_context_data(camera_id, timestamp) ==
    [ location      |-> [text |-> "Nairobi CBD", mentions |-> {}],
      crowd_density |-> "medium",
      weather       |-> "clear",
      traffic       |-> "normal" ]

\* "if risk_assessment.risk_score > 0.3", in ten-thousandths
IncidentThreshold == 3000

\* the levels for which an alert is raised, every level included
AlertLevelsAll == {"low", "medium", "high", "critical"}

AlertLevels == {"high", "critical"}

\* process_camera_stream.  _create_or_update_incident starts by calling
\* self._find_similar_incident, a method the class does not define: the
\* AttributeError is caught by the except clause of process_camera_stream,
\* which logs it and returns, skipping the alert step.
process_camera_stream(camera_id, frame) ==
    /\ tracker_of(camera_id).next_id <= 2 * MaxStreamCalls
    /\ \E r \in ClockReads(now, 3) :
        LET timestamp == r[1]
            detection_events == pipeline_events(camera_id, frame, timestamp)
            context == get_context_data(camera_id, timestamp)
            risk_assessment ==
                assess_risk([ i \in 1..Len(detection_events) |->
                                3600 * detection_events[i].timestamp ],
                            context, hour)
            raises == risk_assessment.risk_score > IncidentThreshold
            alert == ~raises /\ risk_assessment.risk_level \in AlertLevels
        IN  /\ pipeline_trackers' =
                  [ c \in DOMAIN pipeline_trackers \cup {camera_id} |->
                      IF c = camera_id
                      THEN [ tracker_of(c) EXCEPT
                               !.next_id = @ + Len(detect_objects(frame)) ]
                      ELSE pipeline_trackers[c] ]
            /\ detection_history' =
                  store_detection_history(camera_id, detection_events, r[2])
            /\ active_incidents' = active_incidents
            /\ incident_error' = incident_error
            /\ alerts' =
                  IF alert
                  THEN Append(alerts,
                         [ type               |-> "high_risk_alert",
                           risk_score         |-> risk_assessment.risk_score,
                           risk_level         |-> risk_assessment.risk_level,
                           recommended_action |-> risk_assessment.recommended_action,
                           detections         |-> detection_events,
                           timestamp          |-> isoformat(r[3]) ])
                  ELSE alerts
            /\ pcs_result' =
                  [ called          |-> TRUE,
                    camera_id       |-> camera_id,
                    risk_assessment |-> risk_assessment,
                    outcome         |-> IF raises THEN "error" ELSE "done" ]
            /\ now' = IF alert THEN r[3] ELSE r[2]

\* the fields of the ProductionIncident dataclass, none of which has a default
ProductionIncidentFields ==
    {"id", "type", "title", "description", "location", "coordinates",
     "severity", "status", "risk_assessment", "evidence_packages",
     "created_at", "updated_at", "reported_by", "assigned_team_id",
     "requires_human_review", "human_review_completed", "appeal_deadline"}

\* the keyword arguments _create_new_incident passes to ProductionIncident
IncidentKwargs ==
    {"id", "type", "title", "description", "location", "coordinates",
     "severity", "status", "risk_assessment", "evidence_packages",
     "created_at", "reported_by", "requires_human_review",
     "human_review_completed", "appeal_deadline"}

\* the dataclass __init__: a TypeError when a required field is not passed
ProductionIncident_init(kwargs) ==
    IF ProductionIncidentFields \ kwargs = {} THEN "none" ELSE "TypeError"

\* str(uuid.uuid4()): an id no incident and no stored package carries yet
FreshIncidentIds ==
    { <<"uuid", k>> : k \in 1..MaxPackages }
        \ ({ evidence_packages[p].incident_id : p \in DOMAIN evidence_packages }
              \cup DOMAIN active_incidents)

\* _create_new_incident: the evidence package is created and stored first,
\* then the incident is constructed and only then put into active_incidents;
\* an exception of the constructor leaves the method before that store.
create_new_incident(camera_id, events, risk_assessment, context) ==
    \E incident_id \in FreshIncidentIds :
        /\ create_evidence_package(incident_id, events, risk_assessment)
        /\ incident_error' = ProductionIncident_init(IncidentKwargs)
        /\ active_incidents' =
              IF ProductionIncident_init(IncidentKwargs) = "none"
              THEN [ i \in DOMAIN active_incidents \cup {incident_id} |->
                       IF i = incident_id
                       THEN [ id                |-> incident_id,
                              risk_assessment   |-> risk_assessment,
                              evidence_packages |-> <<ev_result'.package_id>> ]
                       ELSE active_incidents[i] ]
              ELSE active_incidents
        /\ UNCHANGED <<pipeline_trackers, detection_history, alerts, pcs_result>>

\* ------------------------------------------------------------------------
\* State, initial state and the specifications
\* ------------------------------------------------------------------------
ev_vars == <<evidence_packages, ev_audit_log, ev_result>>
ms_vars == <<milestones, ms_audit_log, ms_created, ms_result>>
th_vars == <<th_pc, th_arg, th_ret>>
tr_vars == <<tracks, next_id, max_age, min_hits, active_tracks,
             tracks_to_remove, matched_tracks, frames, update_error,
             last_detections, track_lock, ut_pc, ut_local>>
rk_vars == <<hour, risk_last, level_last>>
pr_vars == <<pipeline_trackers, detection_history, active_incidents, alerts,
             pcs_result, incident_error>>
api_vars == <<api_result>>
rl_vars == <<request_counts, rl_clock, rl_admitted, rl_result>>
vars == <<now, ev_vars, ms_vars, th_vars, tr_vars, rk_vars, pr_vars, api_vars, rl_vars>>

Threads == 1..NumThreads
NoArg == [milestone_id |-> 0, actor |-> None, text |-> None]
NoCall == [called |-> FALSE]
\* the locals of an update call that has not started
NoLocal == [ detections |-> << >>, camera_id |-> None, taken |-> {},
             matched |-> {}, k |-> 0, new_id |-> NoId, ids |-> << >> ]

\* EvidenceManager.__init__
EvidenceInit ==
    /\ evidence_packages = << >>
    /\ ev_audit_log = << >>
    /\ ev_result = [op |-> "init", package_id |-> 0, ok |-> TRUE]

\* MilestoneManager.__init__
MilestoneInit ==
    /\ milestones = << >>
    /\ ms_audit_log = << >>
    /\ ms_created = 0
    /\ ms_result = [op |-> "init", milestone_id |-> 0, ok |-> TRUE]

ThreadInit ==
    /\ th_pc = [t \in Threads |-> "idle"]
    /\ th_arg = [t \in Threads |-> NoArg]
    /\ th_ret = [t \in Threads |-> "none"]

\* VehicleTracker.__init__(max_age, min_hits)
TrackerInit ==
    /\ tracks = << >>
    /\ next_id = 1
    /\ max_age = ConfigMaxAge
    /\ min_hits = ConfigMinHits
    /\ active_tracks = << >>
    /\ tracks_to_remove = << >>
    /\ matched_tracks = {}
    /\ frames = 0
    /\ update_error = "none"
    /\ last_detections = << >>
    /\ track_lock = FALSE
    /\ ut_pc = [t \in Threads |-> "idle"]
    /\ ut_local = [t \in Threads |-> NoLocal]

RiskInit ==
    /\ hour = 0
    /\ risk_last = NoCall
    /\ level_last = [called |-> FALSE, risk_score |-> 0, risk_level |-> None,
                     recommended_action |-> None]

\* AIDetectionPipeline.__init__ and KenyaOverwatchProduction.__init__
ProductionInit ==
    /\ pipeline_trackers = << >>
    /\ detection_history = << >>
    /\ active_incidents = << >>
    /\ alerts = << >>
    /\ pcs_result = NoCall
    /\ incident_error = "none"

\* no request has been served yet
ApiInit ==
    api_result = [endpoint |-> "none", milestone_id |-> 0, user_role |-> None,
                  status_code |-> 0]

\* RateLimiter.__init__; no request has come in yet
RateLimitInit ==
    /\ request_counts = << >>
    /\ rl_clock = 0
    /\ rl_admitted = [ip \in ClientIps |-> << >>]
    /\ rl_result = [client_ip |-> None, path |-> None, status_code |-> 0,
                    reached_endpoint |-> FALSE]

Init ==
    /\ now = 0
    /\ EvidenceInit
    /\ MilestoneInit
    /\ ThreadInit
    /\ TrackerInit
    /\ RiskInit
    /\ ProductionInit
    /\ ApiInit
    /\ RateLimitInit

\* ---- EvidenceManager operations ----
CreateEvidencePackage ==
    /\ \E incident_id \in IncidentIds, events \in EventLists, ra \in RiskAssessments :
        create_evidence_package(incident_id, events, ra)
    /\ UNCHANGED <<ms_vars, th_vars, tr_vars, rk_vars, pr_vars, api_vars, rl_vars>>

ReviewEvidence ==
    /\ \E package_id \in PackageIds, reviewer_id \in ReviewerIds,
          decision \in Decisions, notes \in NotesSet :
        review_evidence(package_id, reviewer_id, decision, notes)
    /\ UNCHANGED <<ms_vars, th_vars, tr_vars, rk_vars, pr_vars, api_vars, rl_vars>>

SubmitAppeal ==
    /\ \E package_id \in PackageIds, reason \in AppealReasons :
        submit_appeal(package_id, reason)
    /\ UNCHANGED <<ms_vars, th_vars, tr_vars, rk_vars, pr_vars, api_vars, rl_vars>>

NextEvidence ==
    \/ CreateEvidencePackage
    \/ ReviewEvidence
    \/ SubmitAppeal

SpecEvidence == Init /\ [][NextEvidence]_vars

\* ---- MilestoneManager operations, one call at a time ----
CreateMilestone ==
    /\ \E title \in Titles, created_by \in Users :
        create_milestone(title, "development", created_by, "medium")
    /\ UNCHANGED <<ev_vars, th_vars, tr_vars, rk_vars, pr_vars, api_vars, rl_vars>>

\* PUT /api/milestones/{id}: field edits
UpdateMilestone ==
    /\ \E milestone_id \in MilestoneIds, updated_by \in Users :
       \E updates \in { [title |-> "t2"], [no_such_field |-> "x"] } :
        update_milestone("update", milestone_id, updated_by, updates)
    /\ UNCHANGED <<ev_vars, th_vars, tr_vars, rk_vars, pr_vars, api_vars, rl_vars>>

\* PATCH /api/milestones/{id}/status
UpdateMilestoneStatus ==
    /\ \E milestone_id \in MilestoneIds, updated_by \in Users,
          new_status \in MilestoneStatuses :
        update_milestone("update_status", milestone_id, updated_by,
                         [status |-> new_status])
    /\ UNCHANGED <<ev_vars, th_vars, tr_vars, rk_vars, pr_vars, api_vars, rl_vars>>

SubmitForApproval ==
    /\ \E milestone_id \in MilestoneIds, submitted_by \in Users :
        submit_for_approval(milestone_id, submitted_by)
    /\ UNCHANGED <<ev_vars, th_vars, tr_vars, rk_vars, pr_vars, api_vars, rl_vars>>

ApproveMilestone ==
    /\ \E milestone_id \in MilestoneIds, approved_by \in Approvers, notes \in ApprovalNotes :
        approve_milestone(milestone_id, approved_by, notes)
    /\ UNCHANGED <<ev_vars, th_vars, tr_vars, rk_vars, pr_vars, api_vars, rl_vars>>

RejectMilestone ==
    /\ \E milestone_id \in MilestoneIds, rejected_by \in Approvers, reason \in RejectionReasons :
        reject_milestone(milestone_id, rejected_by, reason)
    /\ UNCHANGED <<ev_vars, th_vars, tr_vars, rk_vars, pr_vars, api_vars, rl_vars>>

DeleteMilestone ==
    /\ \E milestone_id \in MilestoneIds : delete_milestone(milestone_id)
    /\ UNCHANGED <<ev_vars, th_vars, tr_vars, rk_vars, pr_vars, api_vars, rl_vars>>

NextMilestone ==
    \/ CreateMilestone
    \/ UpdateMilestone
    \/ UpdateMilestoneStatus
    \/ SubmitForApproval
    \/ ApproveMilestone
    \/ RejectMilestone
    \/ DeleteMilestone

SpecMilestone == Init /\ [][NextMilestone]_vars

\* ---- EvidenceManager or MilestoneManager, one call at a time ----
\* the two managers share no field, so a run drives one of them while the
\* other stays as constructed
EvidenceManagerCall == MilestoneInit /\ NextEvidence

MilestoneManagerCall == EvidenceInit /\ NextMilestone

NextManagers ==
    \/ EvidenceManagerCall
    \/ MilestoneManagerCall

SpecManagers == Init /\ [][NextManagers]_vars

\* ---- requests to the approve and reject endpoints ----
ApiApproveMilestone ==
    /\ \E milestone_id \in MilestoneIds, approved_by \in Approvers,
          notes \in ApprovalNotes, user_role \in Roles :
        api_approve_milestone(milestone_id, approved_by, notes, user_role)
    /\ UNCHANGED <<ev_vars, th_vars, tr_vars, rk_vars, pr_vars, rl_vars>>

ApiRejectMilestone ==
    /\ \E milestone_id \in MilestoneIds, rejected_by \in Approvers,
          reason \in RejectionReasons, user_role \in Roles :
        api_reject_milestone(milestone_id, rejected_by, reason, user_role)
    /\ UNCHANGED <<ev_vars, th_vars, tr_vars, rk_vars, pr_vars, rl_vars>>

NextMilestoneApi ==
    \/ CreateMilestone
    \/ SubmitForApproval
    \/ ApiApproveMilestone
    \/ ApiRejectMilestone

SpecMilestoneApi == Init /\ [][NextMilestoneApi]_vars

\* ---- milestone API requests none of which carries a gating role ----
UngatedRoles == Roles \ {"supervisor", "admin"}

UngatedApprove ==
    /\ \E milestone_id \in MilestoneIds, approved_by \in Users,
          notes \in ApprovalNotes, user_role \in UngatedRoles :
        api_approve_milestone(milestone_id, approved_by, notes, user_role)
    /\ UNCHANGED <<ev_vars, th_vars, tr_vars, rk_vars, pr_vars, rl_vars>>

UngatedReject ==
    /\ \E milestone_id \in MilestoneIds, rejected_by \in Users,
          reason \in RejectionReasons, user_role \in UngatedRoles :
        api_reject_milestone(milestone_id, rejected_by, reason, user_role)
    /\ UNCHANGED <<ev_vars, th_vars, tr_vars, rk_vars, pr_vars, rl_vars>>

NextMilestoneUngated ==
    \/ CreateMilestone
    \/ UpdateMilestone
    \/ UpdateMilestoneStatus
    \/ SubmitForApproval
    \/ UngatedApprove
    \/ UngatedReject
    \/ DeleteMilestone

SpecMilestoneUngated == Init /\ [][NextMilestoneUngated]_vars

\* ---- approve_milestone / reject_milestone called from several threads ----
\* MilestoneManager takes no lock: another thread can run between the status
\* check of a call and its writes.
ApproveCheck(t) ==
    /\ th_pc[t] = "idle"
    /\ \E milestone_id \in MilestoneIds, notes \in ApprovalNotes :
        /\ th_arg' = [th_arg EXCEPT ![t] =
              [milestone_id |-> milestone_id, actor |-> ThreadActors[t], text |-> notes]]
        /\ IF approvable(milestone_id)
           THEN /\ th_pc' = [th_pc EXCEPT ![t] = "approve_write"]
                /\ UNCHANGED th_ret
           ELSE /\ th_pc' = [th_pc EXCEPT ![t] = "done"]
                /\ th_ret' = [th_ret EXCEPT ![t] = "None"]
    /\ UNCHANGED <<now, ev_vars, ms_vars, tr_vars, rk_vars, pr_vars, api_vars, rl_vars>>

ApproveWrite(t) ==
    /\ th_pc[t] = "approve_write"
    /\ approve_write(th_arg[t].milestone_id, th_arg[t].actor, th_arg[t].text)
    /\ MsReturn("approve", th_arg[t].milestone_id, TRUE)
    /\ th_pc' = [th_pc EXCEPT ![t] = "done"]
    /\ th_ret' = [th_ret EXCEPT ![t] = "milestone"]
    /\ UNCHANGED <<ms_created, th_arg, ev_vars, tr_vars, rk_vars, pr_vars, api_vars, rl_vars>>

RejectCheck(t) ==
    /\ th_pc[t] = "idle"
    /\ \E milestone_id \in MilestoneIds, reason \in RejectionReasons \ {""} :
        /\ th_arg' = [th_arg EXCEPT ![t] =
              [milestone_id |-> milestone_id, actor |-> ThreadActors[t], text |-> reason]]
        /\ IF rejectable(milestone_id)
           THEN /\ th_pc' = [th_pc EXCEPT ![t] = "reject_write"]
                /\ UNCHANGED th_ret
           ELSE /\ th_pc' = [th_pc EXCEPT ![t] = "done"]
                /\ th_ret' = [th_ret EXCEPT ![t] = "None"]
    /\ UNCHANGED <<now, ev_vars, ms_vars, tr_vars, rk_vars, pr_vars, api_vars, rl_vars>>

RejectWrite(t) ==
    /\ th_pc[t] = "reject_write"
    /\ reject_write(th_arg[t].milestone_id, th_arg[t].actor, th_arg[t].text)
    /\ MsReturn("reject", th_arg[t].milestone_id, TRUE)
    /\ th_pc' = [th_pc EXCEPT ![t] = "done"]
    /\ th_ret' = [th_ret EXCEPT ![t] = "milestone"]
    /\ UNCHANGED <<ms_created, th_arg, ev_vars, tr_vars, rk_vars, pr_vars, api_vars, rl_vars>>

NextMilestoneConc ==
    \/ CreateMilestone
    \/ SubmitForApproval
    \/ \E t \in Threads : ApproveCheck(t)
    \/ \E t \in Threads : ApproveWrite(t)
    \/ \E t \in Threads : RejectCheck(t)
    \/ \E t \in Threads : RejectWrite(t)

SpecMilestoneConc == Init /\ [][NextMilestoneConc]_vars

\* ---- VehicleTracker ----
Update ==
    /\ \E camera_id \in Cameras :
         \E detections \in CameraFrames(camera_id) \cup MalformedFrames :
           update(detections, camera_id)
    /\ UNCHANGED <<now, ev_vars, ms_vars, th_vars, rk_vars, pr_vars, api_vars, rl_vars>>

NextTracker == Update

SpecTracker == Init /\ [][NextTracker]_vars

\* ---- VehicleTracker.update called from several threads ----
\* the frames concurrent callers deliver: at most one detection each
ConcFrames == CameraFrames("cam_B") \cup MalformedFrames

\* what an update call leaves of [tracks, next_id] when it runs alone
run_update(st, detections, camera_id, current_time) ==
    IF \E i \in 1..Len(detections) : ~has_bbox(detections[i])
    THEN st
    ELSE LET m == match_pass([tracks |-> st.tracks, taken |-> {}, matched |-> {}],
                             detections, 1, current_time)
             c == create_pass([tracks |-> m.tracks, next_id |-> st.next_id],
                              detections, m.taken, 1, camera_id, current_time)
             aged == age_pass(c.tracks)
         IN  [ tracks  |-> SelectSeq(aged, LAMBDA t : ~expired(t, max_age)),
               next_id |-> c.next_id ]

\* a lock that never keeps a second thread out
lock_free_always(locked) == TRUE

\* 'with self.track_lock': the lock can be taken while no thread holds it
lock_free(locked) == ~locked

ut_others == <<now, ev_vars, ms_vars, th_vars, rk_vars, pr_vars, api_vars, rl_vars>>

\* thread t calls update(detections, camera_id) and reaches the with statement
CallUpdate(t) ==
    /\ ut_pc[t] = "idle"
    /\ \E camera_id \in Cameras, detections \in ConcFrames :
         ut_local' = [ut_local EXCEPT ![t] =
                        [NoLocal EXCEPT !.detections = detections,
                                        !.camera_id = camera_id]]
    /\ ut_pc' = [ut_pc EXCEPT ![t] = "acquire"]
    /\ UNCHANGED <<tracks, next_id, max_age, min_hits, active_tracks,
                   tracks_to_remove, matched_tracks, frames, update_error,
                   last_detections, track_lock>>
    /\ UNCHANGED ut_others

\* track_lock.__enter__
AcquireLock(t) ==
    /\ ut_pc[t] = "acquire"
    /\ lock_free(track_lock)
    /\ track_lock' = TRUE
    /\ ut_pc' = [ut_pc EXCEPT ![t] = "match"]
    /\ UNCHANGED <<tracks, next_id, max_age, min_hits, active_tracks,
                   tracks_to_remove, matched_tracks, frames, update_error,
                   last_detections, ut_local>>
    /\ UNCHANGED ut_others

\* the centroid loop and the matching loop; a KeyError of the centroid loop
\* leaves the with block, which releases the lock
MatchStep(t) ==
    /\ ut_pc[t] = "match"
    /\ LET detections == ut_local[t].detections
       IN  IF \E i \in 1..Len(detections) : ~has_bbox(detections[i])
           THEN /\ update_error' = "KeyError"
                /\ last_detections' = detections
                /\ track_lock' = FALSE
                /\ ut_pc' = [ut_pc EXCEPT ![t] = "done"]
                /\ UNCHANGED <<tracks, ut_local>>
           ELSE LET m == match_pass([tracks |-> tracks, taken |-> {}, matched |-> {}],
                                    detections, 1, now)
                IN  /\ tracks' = m.tracks
                    /\ ut_local' = [ut_local EXCEPT ![t].taken = m.taken,
                                                    ![t].matched = m.matched,
                                                    ![t].k = 1]
                    /\ ut_pc' = [ut_pc EXCEPT ![t] = "create"]
                    /\ UNCHANGED <<update_error, last_detections, track_lock>>
    /\ UNCHANGED <<next_id, max_age, min_hits, active_tracks, tracks_to_remove,
                   matched_tracks, frames>>
    /\ UNCHANGED ut_others

\* the head of the creation loop for detection k: skip a matched detection,
\* else look for a free slot and, finding none, read self.next_id
CreateLoopStep(t) ==
    /\ ut_pc[t] = "create"
    /\ LET k == ut_local[t].k
           slot == first_free_slot(tracks)
       IN  IF k > Len(ut_local[t].detections)
           THEN /\ ut_pc' = [ut_pc EXCEPT ![t] = "age"]
                /\ UNCHANGED ut_local
           ELSE IF k \in ut_local[t].taken
           THEN /\ ut_local' = [ut_local EXCEPT ![t].k = k + 1]
                /\ UNCHANGED ut_pc
           ELSE IF slot # NoId
           THEN /\ ut_local' = [ut_local EXCEPT ![t].new_id = slot]
                /\ ut_pc' = [ut_pc EXCEPT ![t] = "store"]
           ELSE /\ ut_local' = [ut_local EXCEPT ![t].new_id = next_id,
                                                ![t].ids = Append(@, next_id)]
                /\ ut_pc' = [ut_pc EXCEPT ![t] = "incr"]
    /\ UNCHANGED <<tracks, next_id, max_age, min_hits, active_tracks,
                   tracks_to_remove, matched_tracks, frames, update_error,
                   last_detections, track_lock>>
    /\ UNCHANGED ut_others

\* 'self.next_id += 1'
IncrStep(t) ==
    /\ ut_pc[t] = "incr"
    /\ next_id' = next_id + 1
    /\ ut_pc' = [ut_pc EXCEPT ![t] = "store"]
    /\ UNCHANGED <<tracks, max_age, min_hits, active_tracks, tracks_to_remove,
                   matched_tracks, frames, update_error, last_detections,
                   track_lock, ut_local>>
    /\ UNCHANGED ut_others

\* 'self.tracks[new_id] = {...}'
StoreStep(t) ==
    /\ ut_pc[t] = "store"
    /\ tracks' = dict_set(tracks,
                    new_track(ut_local[t].new_id,
                              ut_local[t].detections[ut_local[t].k],
                              ut_local[t].camera_id, now))
    /\ ut_local' = [ut_local EXCEPT ![t].k = @ + 1]
    /\ ut_pc' = [ut_pc EXCEPT ![t] = "create"]
    /\ UNCHANGED <<next_id, max_age, min_hits, active_tracks, tracks_to_remove,
                   matched_tracks, frames, update_error, last_detections,
                   track_lock>>
    /\ UNCHANGED ut_others

\* the aging loop, the removals, the returned list, and track_lock.__exit__
AgeStep(t) ==
    /\ ut_pc[t] = "age"
    /\ LET aged == age_pass(tracks)
           kept == SelectSeq(aged, LAMBDA tr : ~expired(tr, max_age))
       IN  /\ tracks' = kept
           /\ tracks_to_remove' = SelectSeq(aged, LAMBDA tr : expired(tr, max_age))
           /\ active_tracks' =
                LET sel == SelectSeq(kept, LAMBDA tr : confirmed(tr, min_hits))
                IN  [ i \in 1..Len(sel) |-> active_view(sel[i]) ]
    /\ matched_tracks' = ut_local[t].matched
    /\ frames' = frames + 1
    /\ update_error' = "none"
    /\ last_detections' = ut_local[t].detections
    /\ track_lock' = FALSE
    /\ ut_pc' = [ut_pc EXCEPT ![t] = "done"]
    /\ UNCHANGED <<next_id, max_age, min_hits, ut_local>>
    /\ UNCHANGED ut_others

NextTrackerConc ==
    \E t \in Threads :
        \/ CallUpdate(t)
        \/ AcquireLock(t)
        \/ MatchStep(t)
        \/ CreateLoopStep(t)
        \/ IncrStep(t)
        \/ StoreStep(t)
        \/ AgeStep(t)

SpecTrackerConc == Init /\ [][NextTrackerConc]_vars

\* ---- RiskScoringEngine ----
AssessRisk ==
    /\ \E events \in EventBatches, context \in Contexts :
        LET input == [events |-> events, context |-> context]
        IN  risk_last' = [ called |-> TRUE, input |-> input,
                           result |-> assess_risk(events, context, hour) ]
    /\ UNCHANGED <<hour, level_last, now, ev_vars, ms_vars, th_vars, tr_vars, pr_vars, api_vars, rl_vars>>

\* the wall clock moves on to the next hour of the day
HourPasses ==
    /\ hour' = (hour + 1) % 24
    /\ UNCHANGED <<risk_last, level_last, now, ev_vars, ms_vars, th_vars, tr_vars, pr_vars, api_vars, rl_vars>>

NextRisk ==
    \/ AssessRisk
    \/ HourPasses

SpecRisk == Init /\ [][NextRisk]_vars

\* ---- _determine_risk_level and _recommend_action on scores across [0,1] ----
\* scores in ten-thousandths: an even grid, and the scores at and next to
\* the three thresholds
Scores ==
    { (k * 10000) \div ScoreGrid : k \in 0..ScoreGrid }
        \cup { 2900, 2999, 3000, 3001, 5900, 5999, 6000, 6001, 7900, 7999, 8000, 8001 }

DetermineRiskLevel ==
    /\ \E risk_score \in Scores :
        LET risk_level == determine_risk_level(risk_score)
        IN  level_last' = [ called |-> TRUE,
                            risk_score |-> risk_score,
                            risk_level |-> risk_level,
                            recommended_action |-> recommend_action(risk_level) ]
    /\ UNCHANGED <<hour, risk_last, now, ev_vars, ms_vars, th_vars, tr_vars, pr_vars, api_vars, rl_vars>>

NextRiskLevel == DetermineRiskLevel

SpecRiskLevel == Init /\ [][NextRiskLevel]_vars

\* ---- requests through rate_limit_middleware ----
TotalAdmitted == Len(rl_admitted["10.0.0.1"]) + Len(rl_admitted["10.0.0.2"])

HttpRequest ==
    /\ TotalAdmitted < MaxAdmitted
    /\ \E client_ip \in ClientIps, path \in RequestPaths :
        rate_limit_middleware(client_ip, path)
    /\ UNCHANGED <<rl_clock, now, ev_vars, ms_vars, th_vars, tr_vars, rk_vars, pr_vars, api_vars>>

ClockAdvances ==
    /\ rl_clock < 100 * MaxClockTicks
    /\ rl_clock' = rl_clock + 100
    /\ UNCHANGED <<request_counts, rl_admitted, rl_result, now, ev_vars, ms_vars,
                   th_vars, tr_vars, rk_vars, pr_vars, api_vars>>

NextRateLimit ==
    \/ HttpRequest
    \/ ClockAdvances

SpecRateLimit == Init /\ [][NextRateLimit]_vars

\* ---- KenyaOverwatchProduction ----
ProcessCameraStream ==
    /\ \E camera_id \in Cameras, frame \in StreamFrames :
        process_camera_stream(camera_id, frame)
    /\ UNCHANGED <<hour, risk_last, level_last, ev_vars, ms_vars, th_vars, tr_vars, api_vars, rl_vars>>

NextProduction ==
    \/ ProcessCameraStream
    \/ HourPasses

SpecProduction == Init /\ [][NextProduction]_vars

\* ---- incident creation called directly, and the review of its packages ----
CreateNewIncident ==
    /\ \E camera_id \in Cameras, events \in EventLists, ra \in RiskAssessments :
        create_new_incident(camera_id, events, ra, get_context_data(camera_id, now))
    /\ UNCHANGED <<ms_vars, th_vars, tr_vars, rk_vars, api_vars, rl_vars>>

NextIncident ==
    \/ CreateNewIncident
    \/ ReviewEvidence
    \/ SubmitAppeal

SpecIncident == Init /\ [][NextIncident]_vars

\* ---- the risk engine called directly, or through process_camera_stream ----
\* assess_risk keeps no state, so a run either calls the engine with inputs
\* of its own or feeds frames to process_camera_stream
EngineCall == ProductionInit /\ AssessRisk

StreamCall == ~risk_last.called /\ ProcessCameraStream

NextRiskStream ==
    \/ EngineCall
    \/ StreamCall
    \/ HourPasses

SpecRiskStream == Init /\ [][NextRiskStream]_vars

\* ------------------------------------------------------------------------
\* Properties
\* ------------------------------------------------------------------------
MutableFields ==
    {"status", "reviewer_id", "review_notes", "appeal_status", "metadata",
     "retention_until"}

PackageField(p, name) ==
    CASE name = "status" -> p.status
      [] name = "reviewer_id" -> p.reviewer_id
      [] name = "review_notes" -> p.review_notes
      [] name = "appeal_status" -> p.appeal_status
      [] name = "metadata" -> p.metadata
      [] name = "retention_until" -> p.retention_until

\* C1: no stored evidence package has a stale hash: the stored package_hash
\* was computed over the values its mutable fields (status, reviewer id,
\* review notes, appeal status, metadata, retention_until) have now, because
\* every operation that changes one of them re-hashes in the same operation.
C1_NoStaleHash ==
    \A id \in DOMAIN evidence_packages :
        LET p == evidence_packages[id]
        IN  \A name \in MutableFields :
                HashedField(p.package_hash, name) = PackageField(p, name)

\* the edges of the milestone state machine; submit_for_approval is legal
\* from draft as well as from in_progress
AllowedEdge(a, b) ==
    \/ a = "draft" /\ b = "in_progress"
    \/ a \in {"draft", "in_progress"} /\ b = "pending_approval"
    \/ a = "pending_approval" /\ b \in {"approved", "rejected"}
    \/ a \notin TerminalStatuses /\ b = "cancelled"

\* C2: a milestone's status changes only along the edges of the state
\* machine draft -> in_progress -> pending_approval -> approved | rejected
\* (and to cancelled from a non-terminal status); in particular no operation
\* changes the status of an approved, rejected or cancelled milestone.
C2_StatusFollowsStateMachine ==
    [][ \A id \in DOMAIN milestones \cap DOMAIN milestones' :
            milestones'[id].status # milestones[id].status
                => AllowedEdge(milestones[id].status, milestones'[id].status) ]_vars

\* the step is a call of approve_milestone or reject_milestone that did
\* something observable
DecisionCallStep ==
    /\ ms_result'.op \in {"approve", "reject"}
    /\ <<now, ms_vars>>' # <<now, ms_vars>>

\* C3: approve_milestone and reject_milestone succeed only on a milestone in
\* pending_approval; on an unknown id or any other status they return None,
\* leave every milestone unchanged and append no audit entry.
C3_DecisionOnlyFromPending ==
    [][ ( /\ DecisionCallStep
          /\ \/ ms_result'.milestone_id \notin DOMAIN milestones
             \/ milestones[ms_result'.milestone_id].status # "pending_approval" )
        => /\ ms_result'.ok = FALSE
           /\ milestones' = milestones
           /\ ms_audit_log' = ms_audit_log ]_vars

\* an approve or reject was refused on a stored milestone that is not pending
C3_Witness ==
    /\ ms_result.op \in {"approve", "reject"}
    /\ ms_result.ok = FALSE
    /\ ms_result.milestone_id \in DOMAIN milestones
    /\ milestones[ms_result.milestone_id].status \in {"draft", "approved"}

ReviewEntries(p) ==
    { i \in 1..Len(p.metadata.chain_of_custody) :
        p.metadata.chain_of_custody[i].action = "review" }

\* C4: two review_evidence calls on the same package never both succeed:
\* a package carries at most one successful review.
C4_AtMostOneReviewSucceeds ==
    \A id \in DOMAIN evidence_packages :
        Cardinality(ReviewEntries(evidence_packages[id])) <= 1

\* C5: of the concurrent approve_milestone and reject_milestone calls on one
\* milestone at most one succeeds, under every interleaving of their status
\* checks and writes.
C5_AtMostOneDecisionSucceeds ==
    \A id \in MilestoneIds :
        Cardinality({ t \in Threads :
                        th_ret[t] = "milestone" /\ th_arg[t].milestone_id = id }) <= 1

\* C6: every track update returns has hits >= min_hits, and no two tracks
\* of one returned list share a track_id.
C6_ActiveTracksConfirmedAndDistinct ==
    /\ \A i \in 1..Len(active_tracks) : active_tracks[i].hits >= min_hits
    /\ \A i, j \in 1..Len(active_tracks) :
           i # j => active_tracks[i].track_id # active_tracks[j].track_id

\* an update has returned two tracks at once
C6_Witness ==
    /\ frames > 0
    /\ Len(active_tracks) >= 2

TrackIds(trs) == { trs[i].id : i \in 1..Len(trs) }

TrackWithId(trs, id) == trs[CHOOSE i \in 1..Len(trs) : trs[i].id = id]

\* C7: when update returns, a track matched in that call has age 0 and a
\* track not matched has an age one greater than before the call.
C7_AgeAfterUpdate ==
    [][ frames' = frames + 1 =>
          \A id \in TrackIds(tracks') :
              /\ id \in matched_tracks' => TrackWithId(tracks', id).age = 0
              /\ (id \notin matched_tracks' /\ id \in TrackIds(tracks))
                     => TrackWithId(tracks', id).age = TrackWithId(tracks, id).age + 1 ]_vars

\* C8: after an update no stored (hence no returned) track has age > max_age;
\* the tracks an update deletes are exactly those whose age came to exceed
\* max_age, and a deleted track's id appears in no later output.
C8_ExpiredTracksRemoved ==
    [][ /\ \A i \in 1..Len(tracks') : tracks'[i].age <= max_age'
        /\ \A i \in 1..Len(tracks_to_remove') : tracks_to_remove'[i].age > max_age'
        /\ \A id \in TrackIds(tracks) :
               id \notin TrackIds(tracks') => id \in TrackIds(tracks_to_remove')
        /\ \A id \in 1..(next_id - 1) :
               id \notin TrackIds(tracks)
                   => /\ id \notin TrackIds(tracks')
                      /\ \A i \in 1..Len(active_tracks') : active_tracks'[i].track_id # id ]_vars

\* an update has deleted an expired track while keeping a younger one
C8_Witness ==
    /\ Len(tracks_to_remove) > 0
    /\ Len(tracks) > 0

\* C9: assess_risk is deterministic: two calls with the same events and
\* context return the same score, level and reason codes, whatever the wall
\* clock reads at each call.
C9_AssessRiskDeterministic ==
    [][ ( /\ risk_last.called
          /\ risk_last'.called
          /\ risk_last'.input = risk_last.input )
        => /\ risk_last'.result.risk_score = risk_last.result.risk_score
           /\ risk_last'.result.risk_level = risk_last.result.risk_level
           /\ risk_last'.result.factors.reason_codes
                  = risk_last.result.factors.reason_codes ]_vars

\* C10: round trip at creation: hashing the package create_evidence_package
\* returned, with the same serialization, gives the package_hash stored in it.
C10_CreateRoundTrip ==
    ev_result.op = "create" =>
        hash_package(evidence_packages[ev_result.package_id])
            = evidence_packages[ev_result.package_id].package_hash

\* a successful submit_appeal call
AppealStep ==
    /\ ev_result'.op = "appeal"
    /\ ev_result'.ok
    /\ ev_audit_log' # ev_audit_log

\* C11: under a non-decreasing clock no create_evidence_package,
\* review_evidence or submit_appeal call decreases the retention_until of a
\* stored package, and a successful submit_appeal leaves retention_until at
\* the time of the appeal plus 2555 days (appeals_data), also for a package
\* that was under the 365-day offence retention.
C11_RetentionNeverDecreases ==
    [][ /\ now' >= now
        /\ \A id \in DOMAIN evidence_packages \cap DOMAIN evidence_packages' :
               evidence_packages'[id].retention_until
                   >= evidence_packages[id].retention_until
        /\ AppealStep =>
               \E t \in now..now' :
                   evidence_packages'[ev_result'.package_id].retention_until
                       = t + 2555 * 24 ]_vars

\* an appeal has been submitted for a package created with risk level high
C11_Witness ==
    /\ ev_result.op = "appeal"
    /\ ev_result.ok
    /\ evidence_packages[ev_result.package_id].risk_assessment.risk_level = "high"
    /\ evidence_packages[ev_result.package_id].status = "appealed"
    /\ evidence_packages[ev_result.package_id].retention_until >= 2555 * 24

Centroids == { centroid2(d.bbox) : d \in Detections }

\* the tracker state trs after f update calls, each of which was handed one
\* detection at centroid c: one track, hit in every call
AfterStream(trs, f, c) ==
    IF f = 0 THEN trs = << >>
    ELSE /\ Len(trs) = 1
         /\ trs[1].hits = f
         /\ trs[1].centroid_history = [ i \in 1..f |-> c ]

C13_VerifiedOneWay ==
    [][ /\ \A id \in TrackIds(tracks) \cap TrackIds(tracks') :
             /\ TrackWithId(tracks, id).verified => TrackWithId(tracks', id).verified
             /\ ( ~TrackWithId(tracks, id).verified /\ TrackWithId(tracks', id).verified )
                    => /\ id \in matched_tracks'
                       /\ TrackWithId(tracks', id).plate # ""
                       /\ TrackWithId(tracks', id).plate_confidence > VerifyThreshold
        /\ \A camera_id \in Cameras : \A d \in Detections :
             ( /\ d.plate # ""
               /\ d.plate_confidence > VerifyThreshold
               /\ update(<<d>>, camera_id) )
                => \A id \in matched_tracks' \cap TrackIds(tracks') :
                       TrackWithId(tracks', id).verified ]_vars

\* a verified track has just been matched by a detection whose plate
\* confidence is not above the threshold, and is still verified
C13_Witness ==
    \E i \in 1..Len(tracks) :
        /\ tracks[i].verified
        /\ tracks[i].id \in matched_tracks
        /\ tracks[i].plate_confidence <= VerifyThreshold

\* the ids handed out earlier whose tracks have been removed
FreedIds == (1..(next_id - 1)) \ TrackIds(tracks)

\* the ids of the tracks an update call has created
NewIds == TrackIds(tracks') \ TrackIds(tracks)

\* C14: a new track spawned after an earlier track was removed by aging takes
\* an id freed by that removal; only when no freed id exists do new tracks
\* take the next ascending ids, next_id advancing by one for each.
C14_FreedIdReused ==
    [][ NewIds # {} =>
          IF FreedIds # {}
          THEN NewIds \cap FreedIds # {}
          ELSE /\ NewIds = next_id..(next_id + Cardinality(NewIds) - 1)
               /\ next_id' = next_id + Cardinality(NewIds) ]_vars

\* C15: tracker state is not shared between cameras: an update call made for
\* one camera id never matches, and never changes the hits, bounding box,
\* plate or verified flag of, a track created by a detection of another
\* camera id.
C15_NoCrossCameraMatch ==
    [][ \A camera_id \in Cameras : \A detections \in CameraFrames(camera_id) :
          update(detections, camera_id) =>
            \A i \in 1..Len(tracks) :
                tracks[i].camera_id # camera_id =>
                    /\ tracks[i].id \notin matched_tracks'
                    /\ \A j \in 1..Len(tracks') :
                           tracks'[j].id = tracks[i].id =>
                               /\ tracks'[j].hits = tracks[i].hits
                               /\ tracks'[j].bbox = tracks[i].bbox
                               /\ tracks'[j].plate = tracks[i].plate
                               /\ tracks'[j].verified = tracks[i].verified ]_vars

\* the step is a process_camera_stream call (each call hands out track ids)
ProcessStep == pipeline_trackers' # pipeline_trackers

MsCallStep(op) ==
    /\ ms_result'.op = op
    /\ <<now, ms_vars>>' # <<now, ms_vars>>

\* C18: submit_for_approval succeeds only from draft or in_progress; it then
\* sets the status to pending_approval and records submitted_for_approval_at.
\* Called in any other status or on an unknown id it returns None and leaves
\* status, submitted_for_approval_at, updated_at and the audit log unchanged.
C18_SubmitOnlyFromDraftOrInProgress ==
    [][ MsCallStep("submit") =>
          LET id == ms_result'.milestone_id
              legal == /\ id \in DOMAIN milestones
                       /\ milestones[id].status \in {"draft", "in_progress"}
          IN  /\ ms_result'.ok <=> legal
              /\ legal =>
                    /\ milestones'[id].status = "pending_approval"
                    /\ milestones'[id].submitted_for_approval_at \in now..now'
                    /\ Len(ms_audit_log') = Len(ms_audit_log) + 1
              /\ ~legal =>
                    /\ milestones' = milestones
                    /\ ms_audit_log' = ms_audit_log ]_vars

\* a second submit_for_approval was refused on a milestone that had been
\* updated and then brought to pending_approval by an earlier one
C18_Witness ==
    /\ ms_result.op = "submit"
    /\ ms_result.ok = FALSE
    /\ ms_result.milestone_id \in DOMAIN milestones
    /\ milestones[ms_result.milestone_id].status = "pending_approval"
    /\ milestones[ms_result.milestone_id].submitted_for_approval_at # NoTime
    /\ \E i \in 1..Len(ms_audit_log) : ms_audit_log[i].event_type = "milestone_updated"

\* C19: delete_milestone removes a milestone only when its status is draft;
\* for a milestone in any other status, or an unknown id, it returns False
\* and the milestone remains stored and unchanged.
C19_DeleteOnlyDraft ==
    [][ MsCallStep("delete") =>
          LET id == ms_result'.milestone_id
              legal == /\ id \in DOMAIN milestones
                       /\ milestones[id].status = "draft"
          IN  /\ ms_result'.ok <=> legal
              /\ legal => /\ id \notin DOMAIN milestones'
                          /\ \A i \in DOMAIN milestones \ {id} :
                                 /\ i \in DOMAIN milestones'
                                 /\ milestones'[i] = milestones[i]
              /\ ~legal => /\ milestones' = milestones
                           /\ ms_audit_log' = ms_audit_log ]_vars

\* a delete was refused on a stored milestone that is not a draft
C19_Witness ==
    /\ ms_result.op = "delete"
    /\ ms_result.ok = FALSE
    /\ ms_result.milestone_id \in DOMAIN milestones
    /\ milestones[ms_result.milestone_id].status \in {"pending_approval", "approved"}

\* C20: update_milestone applies the field edits and stamps updated_at for a
\* milestone in a non-terminal status (draft, in_progress, pending_approval);
\* for a milestone that is approved, rejected or cancelled the call fails
\* and leaves the milestone unchanged.
C20_UpdateOnlyNonTerminal ==
    [][ ( /\ MsCallStep("update") \/ MsCallStep("update_status")
          /\ ms_result'.milestone_id \in DOMAIN milestones )
        => LET id == ms_result'.milestone_id
           IN  IF milestones[id].status \in TerminalStatuses
               THEN /\ ms_result'.ok = FALSE
                    /\ milestones' = milestones
               ELSE /\ ms_result'.ok
                    /\ milestones'[id].updated_at \in now..now' ]_vars

\* ---- C21 ----
ApiRequestStep == api_result' # api_result

StaleHash(p) ==
    \E name \in MutableFields : HashedField(p.package_hash, name) # PackageField(p, name)

\* C22: a package whose stored hash does not match its current fields is never
\* silently repaired: no successful operation overwrites the stored hash so
\* that the mismatch disappears; the mismatch has to be surfaced instead.
C22_MismatchNeverSilentlyRepaired ==
    [][ \A id \in DOMAIN evidence_packages :
            ( /\ StaleHash(evidence_packages[id])
              /\ ~StaleHash(evidence_packages'[id]) )
            => ~ev_result'.ok ]_vars

\* ---- C23 ----
\* a review_evidence or submit_appeal call
LookupCallStep ==
    /\ ev_result'.op \in {"review", "appeal"}
    /\ <<now, ev_vars>>' # <<now, ev_vars>>

CreateStep ==
    /\ ev_result'.op = "create"
    /\ evidence_packages' # evidence_packages

\* C24: create_evidence_package stores a new package with status created, an
\* empty chain-of-custody log, and retention_until equal to the time of the
\* creation (a clock reading taken during the call, not before created_at)
\* plus 365 days when the risk level is high or critical and plus 72 hours
\* when it is low or medium.
C24_CreateSetsRetention ==
    [][ CreateStep =>
          LET id == ev_result'.package_id
              p == evidence_packages'[id]
              days == IF p.risk_assessment.risk_level \in {"high", "critical"}
                      THEN 365 * 24 ELSE 72
          IN  /\ id \notin DOMAIN evidence_packages
              /\ ev_result'.ok
              /\ p.status = "created"
              /\ p.metadata.chain_of_custody = << >>
              /\ p.retention_until - days \in now..now'
              /\ p.retention_until - days >= p.created_at ]_vars

\* a package of a high-risk incident was just created and is kept for 365 days
C24_Witness ==
    /\ ev_result.op = "create"
    /\ ev_result.package_id \in DOMAIN evidence_packages
    /\ LET p == evidence_packages[ev_result.package_id]
       IN  /\ p.risk_assessment.risk_level = "high"
           /\ p.status = "created"
           /\ p.retention_until >= 365 * 24

\* ---- C25 ----
\* log2 is log1 with exactly one entry appended
AppendedOne(log1, log2) ==
    /\ Len(log2) = Len(log1) + 1
    /\ SubSeq(log2, 1, Len(log1)) = log1

\* C25: the audit logs of EvidenceManager and MilestoneManager are append-only:
\* a call that succeeds appends exactly one entry to its manager's log, a call
\* that fails appends none, and the entries already logged stay as they are,
\* in their order.
C25_AuditLogsAppendOnly ==
    [][ /\ ev_vars' # ev_vars =>
              IF ev_result'.ok THEN AppendedOne(ev_audit_log, ev_audit_log')
                               ELSE ev_audit_log' = ev_audit_log
        /\ ms_vars' # ms_vars =>
              IF ms_result'.ok THEN AppendedOne(ms_audit_log, ms_audit_log')
                               ELSE ms_audit_log' = ms_audit_log
        /\ ev_vars' = ev_vars => ev_audit_log' = ev_audit_log
        /\ ms_vars' = ms_vars => ms_audit_log' = ms_audit_log ]_vars

\* an approval was logged after the earlier entries of the milestone log
C25_Witness ==
    /\ ms_result.op = "approve"
    /\ ms_result.ok
    /\ Len(ms_audit_log) >= 3
    /\ ms_audit_log[Len(ms_audit_log)].event_type = "milestone_approved"

\* ---- C26 ----
\* what a frame with no detections does to the stored tracks: every track is
\* one frame older, and those older than max_age are gone
AgedOnly(trs) ==
    SelectSeq([ i \in 1..Len(trs) |-> [trs[i] EXCEPT !.age = @ + 1] ],
              LAMBDA t : t.age <= max_age)

\* C26: an update call whose detection list is empty or malformed never raises
\* and acts as a frame with no detections: it creates no track, leaves the
\* hits, bounding box, plate and verified flag of every track unchanged, makes
\* every track one frame older and removes only those older than max_age.
C26_EmptyOrMalformedAgesTracks ==
    [][ \A camera_id \in Cameras :
          \A detections \in {<< >>} \cup MalformedFrames :
            update(detections, camera_id)
              => /\ update_error' = "none"
                 /\ next_id' = next_id
                 /\ tracks' = AgedOnly(tracks) ]_vars

\* an empty detection list alone does age the tracks and nothing else
EmptyFrameAgesTracks ==
    [][ \A camera_id \in Cameras :
            update(<< >>, camera_id)
              => /\ update_error' = "none"
                 /\ next_id' = next_id
                 /\ tracks' = AgedOnly(tracks) ]_vars

\* ---- C27 ----
LevelRank(risk_level) ==
    CASE risk_level = "low" -> 1
      [] risk_level = "medium" -> 2
      [] risk_level = "high" -> 3
      [] risk_level = "critical" -> 4

\* C27: the risk level partitions the score range: below 0.3 low, from 0.3 to
\* below 0.6 medium, from 0.6 to below 0.8 high, 0.8 and above critical; a
\* higher score never gets a lower level, and the recommended action depends
\* on the level alone.
C27_LevelPartitionsScore ==
    [][ /\ level_last'.called =>
            LET x == level_last'.risk_score
                l == level_last'.risk_level
            IN  /\ l \in {"low", "medium", "high", "critical"}
                /\ l = "low" <=> x < 3000
                /\ l = "medium" <=> (3000 <= x /\ x < 6000)
                /\ l = "high" <=> (6000 <= x /\ x < 8000)
                /\ l = "critical" <=> 8000 <= x
        /\ (level_last.called /\ level_last'.called) =>
            /\ level_last'.risk_score >= level_last.risk_score
                   => LevelRank(level_last'.risk_level) >= LevelRank(level_last.risk_level)
            /\ level_last'.risk_level = level_last.risk_level
                   => level_last'.recommended_action = level_last.recommended_action ]_vars

\* the score exactly at the first threshold was classified medium
C27_Witness ==
    /\ level_last.called
    /\ level_last.risk_score = 3000
    /\ level_last.risk_level = "medium"
    /\ level_last.recommended_action = "Operator notification"

\* ---- C28 ----
\* C28: for an empty event batch assess_risk returns behavioral_risk = 0 and
\* contextual_risk = 0, whatever the context (adverse weather and congested
\* traffic included).
C28_EmptyBatchZeroRisk ==
    (risk_last.called /\ Len(risk_last.input.events) = 0)
        => /\ risk_last.result.factors.behavioral_risk = 0
           /\ risk_last.result.factors.contextual_risk = 0

\* ---- C29 ----
\* C29: for every event batch, context and hour, each of the four risk factors
\* returned by assess_risk lies in [0,1], and so does the combined risk_score.
C29_FactorsInUnitInterval ==
    risk_last.called =>
        /\ risk_last.result.factors.behavioral_risk \in 0..1000
        /\ risk_last.result.factors.spatial_risk \in 0..1000
        /\ risk_last.result.factors.temporal_risk \in 0..1000
        /\ risk_last.result.factors.contextual_risk \in 0..1000
        /\ risk_last.result.risk_score \in 0..10000

\* a high crowd density outside any zone brought the spatial factor down to 0
C29_Witness ==
    /\ risk_last.called
    /\ risk_last.input.context.crowd_density = "high"
    /\ risk_last.result.factors.spatial_risk = 0
    /\ risk_last.result.factors.behavioral_risk > 0

\* ---- C30 ----
\* C30: a reject with an empty reason does not reject the milestone: the call
\* fails, the milestone stays in pending_approval and neither a rejection
\* reason nor a rejecting actor is recorded.
C30_EmptyReasonRefused ==
    [][ \A milestone_id \in DOMAIN milestones, rejected_by \in Approvers :
          ( /\ milestones[milestone_id].status = "pending_approval"
            /\ reject_milestone(milestone_id, rejected_by, "") )
          => /\ ms_result'.ok = FALSE
             /\ milestones' = milestones
             /\ ms_audit_log' = ms_audit_log ]_vars

\* ---- C31 ----
\* how many requests of client ip the limiter admitted in the 300 seconds up
\* to t (those made 300 seconds before t or earlier have left the window)
AdmittedInWindow(ip, t) ==
    Cardinality({ i \in 1..Len(rl_admitted[ip]) : rl_admitted[ip][i] > t - 300 })

\* a request passing through the middleware
RequestStep ==
    /\ rl_clock' = rl_clock
    /\ rl_vars' # rl_vars

\* C31: authentication endpoints are rate limited per client: of the requests
\* one client sends to a path under /api/auth/, at most 5 are admitted in any
\* window of 300 seconds; a request arriving when 5 were admitted in the last
\* 300 seconds is answered 429 and does not reach the endpoint, and a request
\* arriving when fewer are left in the window is admitted again.
C31_AuthRateLimited ==
    [][ /\ \A ip \in ClientIps :
            \A i \in 1..Len(rl_admitted'[ip]) :
                i + 5 <= Len(rl_admitted'[ip])
                    => rl_admitted'[ip][i + 5] >= rl_admitted'[ip][i] + 300
        /\ (RequestStep /\ is_auth_path(rl_result'.path)) =>
            LET ip == rl_result'.client_ip
            IN  IF AdmittedInWindow(ip, rl_clock) >= 5
                THEN /\ rl_result'.status_code = 429
                     /\ ~rl_result'.reached_endpoint
                     /\ rl_admitted' = rl_admitted
                ELSE /\ rl_result'.status_code = 200
                     /\ rl_result'.reached_endpoint
                     /\ rl_admitted' = [rl_admitted EXCEPT ![ip] = Append(@, rl_clock)] ]_vars

\* a client was admitted a sixth time, once its first request had left the
\* window
C31_Witness ==
    \E ip \in ClientIps :
        /\ Len(rl_admitted[ip]) = 6
        /\ rl_admitted[ip][6] >= rl_admitted[ip][1] + 300
        /\ rl_result.client_ip = ip
        /\ rl_result.status_code = 200
        /\ is_auth_path(rl_result.path)

\* ---- C32 ----
\* a risk assessment below the incident threshold, with nothing to explain
LowAndUnexplained(ra) ==
    /\ ra.risk_score < 3000
    /\ ra.risk_level = "low"
    /\ ra.factors.reason_codes = << >>

\* C32: for every event batch, context and hour of day assess_risk returns a
\* risk_score strictly below 0.3, level low and no reason codes; hence no
\* process_camera_stream call opens an incident, creates an evidence package
\* or raises an alert.
C32_ScoreAlwaysLow ==
    /\ risk_last.called => LowAndUnexplained(risk_last.result)
    /\ pcs_result.called => LowAndUnexplained(pcs_result.risk_assessment)
    /\ active_incidents = << >>
    /\ evidence_packages = << >>
    /\ alerts = << >>

\* the highest score there is: a loitering batch at the airport, at night, in
\* a storm with congested traffic and a low crowd density
C32_Witness ==
    /\ risk_last.called
    /\ risk_last.result.risk_score = 2300
    /\ risk_last.result.factors.behavioral_risk = 200
    /\ risk_last.result.factors.spatial_risk = 250

\* ---- C33 ----
\* C33: when no milestone API request carries the role supervisor or admin,
\* no milestone ever has status approved or rejected: these statuses come only
\* from a successful approve or reject made by a gated role.
C33_UngatedNeverDecides ==
    \A id \in DOMAIN milestones :
        milestones[id].status \notin {"approved", "rejected"}

\* ---- C34 ----
\* C34: a milestone whose status is approved has completed_at, approved_by and
\* submitted_for_approval_at set, and a milestone in any other status has
\* completed_at unset.
C34_ApprovedIffCompleted ==
    \A id \in DOMAIN milestones :
        LET m == milestones[id]
        IN  IF m.status = "approved"
            THEN /\ m.completed_at # NoTime
                 /\ m.approved_by # None
                 /\ m.submitted_for_approval_at # NoTime
            ELSE m.completed_at = NoTime

\* ---- C35 ----
\* every track an update call leaves behind or removes
PostTracks == tracks' \o tracks_to_remove'

\* the track stored at position i before the call was matched in the call
WasMatched(i) == TrackWithId(PostTracks, tracks[i].id).hits = tracks[i].hits + 1

\* the index in dets of the detection whose box track i took
TakenBy(i, dets) ==
    CHOOSE k \in 1..Len(dets) : dets[k].bbox = TrackWithId(PostTracks, tracks[i].id).bbox

\* the detections no earlier track has taken when track i is visited
StillFree(i, dets) ==
    { m \in 1..Len(dets) :
        \A j \in 1..(i - 1) : WasMatched(j) => TakenBy(j, dets) # m }

\* four times the squared distance from track i's last centroid to detection m
DistanceTo(i, dets, m) ==
    distance2x4(centroid2(dets[m].bbox),
                tracks[i].centroid_history[Len(tracks[i].centroid_history)])

\* the outcome of one update call on dets is the greedy one-to-one matching
GreedyMatching(dets) ==
    LET unmatched == { m \in 1..Len(dets) :
                         \A i \in 1..Len(tracks) : WasMatched(i) => TakenBy(i, dets) # m }
        created == { id \in TrackIds(PostTracks) : id \notin TrackIds(tracks) }
    IN  /\ \A i, j \in 1..Len(tracks) :
              (i # j /\ WasMatched(i) /\ WasMatched(j))
                  => TakenBy(i, dets) # TakenBy(j, dets)
        /\ \A i \in 1..Len(tracks) :
              IF WasMatched(i)
              THEN LET k == TakenBy(i, dets)
                   IN  /\ k \in StillFree(i, dets)
                       /\ DistanceTo(i, dets, k) < 4 * 150 * 150
                       /\ \A m \in StillFree(i, dets) :
                              \/ DistanceTo(i, dets, m) > DistanceTo(i, dets, k)
                              \/ DistanceTo(i, dets, m) = DistanceTo(i, dets, k) /\ m >= k
              ELSE \A m \in StillFree(i, dets) : DistanceTo(i, dets, m) >= 4 * 150 * 150
        /\ Cardinality(created) = Cardinality(unmatched)
        /\ \A m \in unmatched :
              \E id \in created :
                  /\ TrackWithId(PostTracks, id).bbox = dets[m].bbox
                  /\ TrackWithId(PostTracks, id).hits = 1
                  /\ \A id2 \in created :
                         TrackWithId(PostTracks, id2).bbox = dets[m].bbox => id2 = id

\* C35: within one update call every detection is matched to at most one track
\* and every track to at most one detection: tracks are visited in insertion
\* order, each takes the nearest not-yet-taken detection strictly closer than
\* 150 units to its last centroid, the earliest-listed detection winning a
\* tie, and every detection left unmatched creates exactly one new track with
\* hits = 1.
C35_GreedyOneToOneMatching ==
    [][ (frames' = frames + 1) => GreedyMatching(last_detections') ]_vars

\* a track had two free detections at the same distance and took the one
\* listed first, the other one starting a track of its own
C35_Witness ==
    /\ Len(tracks) = 2
    /\ tracks[1].hits = 2
    /\ tracks[1].bbox = <<0, 100, 20, 120>>
    /\ Len(tracks[1].centroid_history) = 2
    /\ tracks[1].centroid_history[1] = <<20, 20>>
    /\ tracks[2].hits = 1
    /\ tracks[2].bbox = <<100, 0, 120, 20>>

\* ---- C36 ----
\* a successful review_evidence call
ReviewStep ==
    /\ ev_result'.op = "review"
    /\ ev_result'.ok
    /\ ev_vars' # ev_vars

\* C36: review_evidence on a stored package sets status to approved exactly
\* when the decision is 'approve' and to rejected for every other decision,
\* stores the reviewer id and the notes, appends exactly one chain-of-custody
\* entry after the earlier ones, and leaves incident_id, events,
\* risk_assessment, created_at, appeal_status and retention_until unchanged.
\* The arguments of the call are read from the audit entry it writes.
C36_ReviewFrame ==
    [][ ReviewStep =>
          LET id == ev_result'.package_id
              p == evidence_packages[id]
              q == evidence_packages'[id]
              call == ev_audit_log'[Len(ev_audit_log')].data
              custody == q.metadata.chain_of_custody
          IN  /\ call.package_id = id
              /\ q.status = (IF call.decision = "approve" THEN "approved" ELSE "rejected")
              /\ q.reviewer_id = call.reviewer_id
              /\ q.review_notes = call.notes
              /\ Len(custody) = Len(p.metadata.chain_of_custody) + 1
              /\ SubSeq(custody, 1, Len(custody) - 1) = p.metadata.chain_of_custody
              /\ custody[Len(custody)].action = "review"
              /\ custody[Len(custody)].reviewer_id = call.reviewer_id
              /\ custody[Len(custody)].decision = call.decision
              /\ q.incident_id = p.incident_id
              /\ q.events = p.events
              /\ q.risk_assessment = p.risk_assessment
              /\ q.created_at = p.created_at
              /\ q.appeal_status = p.appeal_status
              /\ q.retention_until = p.retention_until
              /\ \A other \in DOMAIN evidence_packages \ {id} :
                     evidence_packages'[other] = evidence_packages[other] ]_vars

\* an appealed package was reviewed with a decision other than 'approve' and
\* came out rejected, its appeal status and retention kept
C36_Witness ==
    /\ ev_result.op = "review"
    /\ ev_result.ok
    /\ LET q == evidence_packages[ev_result.package_id]
           custody == q.metadata.chain_of_custody
       IN  /\ custody[Len(custody)].decision # "approve"
           /\ q.status = "rejected"
           /\ q.appeal_status = "submitted"
           /\ q.retention_until >= 2555 * 24

\* C37: every evidence package that incident creation stores is owned by an
\* incident: active_incidents holds an incident whose id is the package's
\* incident_id and whose evidence_packages list contains the package.
C37_PackageOwnedByIncident ==
    \A p \in DOMAIN evidence_packages :
        /\ evidence_packages[p].incident_id \in DOMAIN active_incidents
        /\ \E i \in 1..Len(active_incidents[evidence_packages[p].incident_id].evidence_packages) :
              active_incidents[evidence_packages[p].incident_id].evidence_packages[i] = p

\* the threads that are inside the with block of update
InUpdateBody == { t \in Threads : ut_pc[t] \in {"match", "create", "incr", "store", "age"} }

\* the threads whose update call has returned or raised
Returned == { t \in Threads : ut_pc[t] = "done" }

\* the orders in which the calls of the threads in D can run one at a time
SerialOrders(D) ==
    { o \in [1..Cardinality(D) -> D] : \A i, j \in DOMAIN o : i # j => o[i] # o[j] }

\* [tracks, next_id] after the calls of the threads listed in o, from call i on
RECURSIVE SerialRun(_, _, _)
SerialRun(st, o, i) ==
    IF i > Len(o) THEN st
    ELSE SerialRun(run_update(st, ut_local[o[i]].detections,
                              ut_local[o[i]].camera_id, now),
                   o, i + 1)

\* every id the update calls have taken from next_id, with the taking thread
IdsTaken ==
    { <<t, i>> : t \in Threads, i \in 1..MaxDets } \cap
    UNION { { <<t, i>> : i \in 1..Len(ut_local[t].ids) } : t \in Threads }

\* C38: concurrent update calls on one tracker exclude each other: at most one
\* thread is inside the locked body; whenever no thread is inside it, tracks
\* and next_id are what running the returned calls one at a time in some order
\* leaves; and no id is taken from next_id twice.
C38_UpdateCallsSerialised ==
    /\ Cardinality(InUpdateBody) <= 1
    /\ InUpdateBody = {} =>
          \E o \in SerialOrders(Returned) :
              SerialRun([tracks |-> << >>, next_id |-> 1], o, 1)
                  = [tracks |-> tracks, next_id |-> next_id]
    /\ \A a, b \in IdsTaken :
          a # b => ut_local[a[1]].ids[a[2]] # ut_local[b[1]].ids[b[2]]

\* every thread has returned from update and two of them created a track
\* under an id taken from next_id
C38_Witness ==
    /\ Returned = Threads
    /\ \E t1, t2 \in Threads :
          t1 # t2 /\ ut_local[t1].ids # << >> /\ ut_local[t2].ids # << >>

\* C39: after every update call a track is verified whenever a detection
\* associated with it so far, the creating one included, carried plate text
\* with a confidence above 0.85.  The plate and plate_confidence of a track
\* are those of the latest such detection with plate text, so a track that
\* carries a plate read with a confidence above the threshold is verified.
C39_VerifiedByAnyAssociatedDetection ==
    \A i \in 1..Len(tracks) :
        ( /\ tracks[i].id # NoId
          /\ tracks[i].plate # ""
          /\ tracks[i].plate_confidence > VerifyThreshold )
            => tracks[i].verified

\* the seconds between the first and the last event of a batch
TimeSpan(events) ==
    IF Len(events) = 0 THEN 0 ELSE events[Len(events)] - events[1]

\* what is left of a behavioral risk once the motion and the directional
\* contributions are taken off
LoiteringContribution(events, behavioral_risk) ==
    behavioral_risk
        - (IF detect_motion_changes(events) > 700 THEN 300 ELSE 0)
        - (IF detect_directional_conflicts(events) > 500 THEN 250 ELSE 0)

\* C40: a batch whose span from first to last event exceeds 300 seconds gets
\* the loitering contribution of 0.2 in its behavioral risk, whatever the
\* number of its events, and a batch whose span is 300 seconds or less gets
\* none.
C40_LoiteringBySpanAlone ==
    risk_last.called =>
        LET events == risk_last.input.events
            loitering == LoiteringContribution(events,
                            risk_last.result.factors.behavioral_risk)
        IN  IF TimeSpan(events) > 300 THEN loitering = 200 ELSE loitering = 0

====
